---- MODULE Spec2Model ----
(***************************************************************************)
(* Reproducible reduction engine of feltor (dg::blas2::dot over MPI and    *)
(* nested vectors, exblas::exdot_cpu).                                     *)
(*                                                                         *)
(* Numbers are scaled down so that TLC can enumerate them: a "double" is   *)
(* an integer with a MANT-bit significand (round to nearest, ties to       *)
(* even), a superaccumulator has BIN_COUNT bins of DIGITS value bits and   *)
(* KRX carry-save bits, held in a signed container of DIGITS+KRX bits that *)
(* wraps around like int64_t does.  The program has 53, 39, 56 and 8.      *)
(***************************************************************************)
EXTENDS Integers, Sequences, FiniteSets, TLC

\* ------------------------------------------------------------------------
\* Sizes of the scaled number formats and of the inputs
\* ------------------------------------------------------------------------
MANT == 2
DIGITS == 3
KRX == 3
BIN_COUNT == 4
MaxN == 9
MaxShort == 5

IMIN == 0
IMAX == BIN_COUNT - 1

\* chunk width of the dense kernel (vcl::Vec8d, N & ~7ul)
VLEN == 8

RECURSIVE Pow2(_)
Pow2(n) == IF n <= 0 THEN 1 ELSE 2 * Pow2(n - 1)

RECURSIVE FloorLog2(_)
FloorLog2(m) == IF m <= 1 THEN 0 ELSE 1 + FloorLog2(m \div 2)

\* body(v) with v bound to the value of e, which is computed once
Bind(e, body(_)) == CHOOSE r \in {body(v) : v \in {w \in {e} : w = w}} : TRUE

Abs(v) == IF v < 0 THEN -v ELSE v
Sgn(v) == IF v < 0 THEN -1 ELSE IF v > 0 THEN 1 ELSE 0

DELTASCALE == Pow2(DIGITS)
WORDMAX == Pow2(DIGITS + KRX - 1) - 1
WORDMIN == -Pow2(DIGITS + KRX - 1)

\* two's complement wrap-around of an int64_t addition
Wrap(v) == ((v - WORDMIN) % Pow2(DIGITS + KRX)) + WORDMIN

\* rint(m / d): round to nearest integer, ties to even (d > 0)
Rint(m, d) ==
    LET q == m \div d
        r == m % d
    IN  IF 2 * r > d \/ (2 * r = d /\ q % 2 = 1) THEN q + 1 ELSE q

\* the double nearest to the real number v (round to nearest even)
RoundNearest(v) ==
    IF v = 0 THEN 0
    ELSE LET e == FloorLog2(Abs(v))
             ulp == Pow2(e - MANT + 1)
         IN  Sgn(v) * Rint(Abs(v), ulp) * ulp

\* ------------------------------------------------------------------------
\* Error-free product
\* ------------------------------------------------------------------------
\* the error term computed from the rounded product, without the fused step
TwoProductFMA_NoFMA(a, b) ==
    LET head == RoundNearest(a * b)
    IN  [head |-> head, tail |-> RoundNearest(RoundNearest(a * b) - head)]

TwoProductFMA(a, b) ==
    LET head == RoundNearest(a * b)
    IN  [head |-> head, tail |-> RoundNearest(a * b - head)]

\* ------------------------------------------------------------------------
\* Superaccumulator
\* ------------------------------------------------------------------------
Bins == 0 .. (BIN_COUNT - 1)
ZeroAcc == [k \in Bins |-> 0]

\* the number an accumulator stands for
RECURSIVE ValueFrom(_, _)
ValueFrom(acc, k) ==
    IF k > IMAX THEN 0 ELSE acc[k] + DELTASCALE * ValueFrom(acc, k + 1)
Value(acc) == ValueFrom(acc, IMIN)

\* NormalizeFrom that cancels the last carry as well
RECURSIVE NormalizeFrom_CancelLast(_, _, _)
NormalizeFrom_CancelLast(acc, i, carry_in) ==
    IF i >= BIN_COUNT
    THEN acc
    ELSE LET w == Wrap(acc[i] + carry_in)
             carry_out == w \div DELTASCALE
         IN  Bind([acc EXCEPT ![i] = w - carry_out * DELTASCALE],
                  LAMBDA next : NormalizeFrom_CancelLast(next, i + 1, carry_out))

\* carry propagation from bin imin upwards; the last carry is not cancelled
RECURSIVE NormalizeFrom(_, _, _)
NormalizeFrom(acc, i, carry_in) ==
    IF i >= BIN_COUNT
    THEN [acc EXCEPT ![i - 1] = Wrap(acc[i - 1] + carry_in * DELTASCALE)]
    ELSE LET w == Wrap(acc[i] + carry_in)
             carry_out == w \div DELTASCALE
         IN  Bind([acc EXCEPT ![i] = w - carry_out * DELTASCALE],
                  LAMBDA next : NormalizeFrom(next, i + 1, carry_out))

\* Normalize that hands the carry of bin imin on without taking it out
Normalize_KeepCarry(acc, imin, imax) ==
    LET carry_in == acc[imin] \div DELTASCALE
    IN  NormalizeFrom(acc, imin + 1, carry_in)

Normalize(acc, imin, imax) ==
    LET carry_in == acc[imin] \div DELTASCALE
    IN  NormalizeFrom([acc EXCEPT ![imin] = acc[imin] - carry_in * DELTASCALE],
                      imin + 1, carry_in)

\* add the integer x to bin i; a bin that would leave its container is
\* normalized first
AccumulateWord(acc, i, x) ==
    IF acc[i] + x <= WORDMAX /\ acc[i] + x >= WORDMIN
    THEN [acc EXCEPT ![i] = acc[i] + x]
    ELSE LET n == Normalize(acc, IMIN, IMAX)
         IN  [n EXCEPT ![i] = Wrap(n[i] + x)]

\* split the double x over the bins it straddles, most significant first
RECURSIVE AccumulateFrom(_, _, _)
AccumulateFrom(acc, i, x) ==
    IF x = 0 \/ i < 0 THEN acc
    ELSE LET w == Pow2(DIGITS * i)
             xrounded == Sgn(x) * Rint(Abs(x), w)
         IN  Bind(AccumulateWord(acc, i, xrounded),
                  LAMBDA next : AccumulateFrom(next, i - 1, x - xrounded * w))

Accumulate(acc, x) ==
    IF x = 0 THEN acc
    ELSE AccumulateFrom(acc, FloorLog2(Abs(x)) \div DIGITS, x)

\* the double nearest to the value of the accumulator
Round(acc) == RoundNearest(Value(Normalize(acc, IMIN, IMAX)))

\* Round that leaves a cleared accumulator behind
RoundAcc_Consume(acc) == [k \in Bins |-> 0]

\* Round normalizes the accumulator it is handed in place
RoundAcc(acc) == Normalize(acc, IMIN, IMAX)

\* merge of sub-accumulator acci into acc0 as the nested dot does it: both are
\* normalized in place, then the bins IMIN <= k < IMAX are added
MergeBins(acc0, acci) ==
    LET n0 == Normalize(acc0, IMIN, IMAX)
        ni == Normalize(acci, IMIN, IMAX)
    IN  [k \in Bins |-> IF k >= IMIN /\ k < IMAX THEN Wrap(n0[k] + ni[k])
                                                  ELSE n0[k]]

\* ------------------------------------------------------------------------
\* Dense kernel
\* ------------------------------------------------------------------------
\* a[i+1] for i < n, 0 for the lanes load_partial leaves empty
Lane(a, i, n) == IF i < n THEN a[i + 1] ELSE 0

\* cache.Accumulate of one vector: lanes lo .. lo+VLEN-1 of the heads or tails
RECURSIVE AccumulateVec(_, _, _, _, _, _, _)
AccumulateVec(cache, a, b, lo, n, l, part) ==
    IF l >= VLEN THEN cache
    ELSE LET p == TwoProductFMA(Lane(a, lo + l, n), Lane(b, lo + l, n))
         IN  Bind(Accumulate(cache, IF part = "head" THEN p.head ELSE p.tail),
                  LAMBDA next : AccumulateVec(next, a, b, lo, n, l + 1, part))

RECURSIVE ExDOTLoop(_, _, _, _, _)
ExDOTLoop(cache, a, b, i, r) ==
    IF i >= r THEN cache
    ELSE Bind(AccumulateVec(cache, a, b, i, r, 0, "head"), LAMBDA x :
         Bind(AccumulateVec(x, a, b, i, r, 0, "tail"), LAMBDA r1 :
             ExDOTLoop(r1, a, b, i + VLEN, r)))

\* kernel whose remainder accumulates the heads only
ExDOTFPE_cpu_HeadsOnly(N, a, b, acc) ==
    LET r == N - (N % VLEN)
    IN  Bind(ExDOTLoop(acc, a, b, 0, r), LAMBDA looped :
            IF r # N
            THEN AccumulateVec(looped, a, b, r, N, 0, "head")
            ELSE looped)

\* kernel that leaves the remainder out
ExDOTFPE_cpu_NoRemainder(N, a, b, acc) ==
    ExDOTLoop(acc, a, b, 0, N - (N % VLEN))

ExDOTFPE_cpu(N, a, b, acc) ==
    LET r == N - (N % VLEN)
    IN  Bind(ExDOTLoop(acc, a, b, 0, r), LAMBDA looped :
            IF r # N
            THEN Bind(AccumulateVec(looped, a, b, r, N, 0, "head"), LAMBDA x :
                     AccumulateVec(x, a, b, r, N, 0, "tail"))
            ELSE looped)

\* exdot_cpu that accumulates on top of what the buffer holds
exdot_cpu_NoZero(size, x1, x2, h_superacc) ==
    ExDOTFPE_cpu(size, x1, x2, h_superacc)

exdot_cpu(size, x1, x2, h_superacc) ==
    ExDOTFPE_cpu(size, x1, x2, [k \in Bins |-> 0])

\* three-operand kernel: per lane only mul_add(mul_add(a,b,0),c,0) is accumulated
RECURSIVE AccumulateVec3(_, _, _, _, _, _, _)
AccumulateVec3(cache, a, b, c, lo, n, l) ==
    IF l >= VLEN THEN cache
    ELSE LET x1 == RoundNearest(Lane(a, lo + l, n) * Lane(b, lo + l, n))
             x2 == RoundNearest(x1 * Lane(c, lo + l, n))
         IN  Bind(Accumulate(cache, x2),
                  LAMBDA next : AccumulateVec3(next, a, b, c, lo, n, l + 1))

RECURSIVE ExDOTLoop3(_, _, _, _, _, _)
ExDOTLoop3(cache, a, b, c, i, r) ==
    IF i >= r THEN cache
    ELSE Bind(AccumulateVec3(cache, a, b, c, i, r, 0), LAMBDA next :
             ExDOTLoop3(next, a, b, c, i + VLEN, r))

ExDOTFPE_cpu3(N, a, b, c, acc) ==
    LET r == N - (N % VLEN)
    IN  Bind(ExDOTLoop3(acc, a, b, c, 0, r), LAMBDA looped :
            IF r # N THEN AccumulateVec3(looped, a, b, c, r, N, 0) ELSE looped)

\* three-operand exdot_cpu that accumulates on top of what the buffer holds
exdot_cpu3_NoZero(size, x1, x2, x3, h_superacc) ==
    ExDOTFPE_cpu3(size, x1, x2, x3, h_superacc)

exdot_cpu3(size, x1, x2, x3, h_superacc) ==
    ExDOTFPE_cpu3(size, x1, x2, x3, [k \in Bins |-> 0])

\* ------------------------------------------------------------------------
\* Layout dispatch and distributed combine
\* ------------------------------------------------------------------------
\* A distributed vector is a function from the ranks 0 .. np-1 to the local
\* arrays; an operand triple (x, P, y) is kept as one array of <<x, P, y>>.
Ranks(np) == 0 .. (np - 1)

Xs(t) == [i \in 1 .. Len(t) |-> t[i][1]]
Ps(t) == [i \in 1 .. Len(t) |-> t[i][2]]
Ys(t) == [i \in 1 .. Len(t) |-> t[i][3]]

\* dense dot of the local data of one process
doDot_superacc_dense(t) == exdot_cpu3(Len(t), Xs(t), Ps(t), Ys(t), ZeroAcc)

\* size of a local sub-group (scaled as the bins are, the program has 128)
MOD == 2

GroupOf(p) == p \div MOD
IsLeader(p) == p % MOD = 0
GroupMembers(p, np) == {q \in Ranks(np) : GroupOf(q) = GroupOf(p)}
Leaders(np) == {q \in Ranks(np) : IsLeader(q)}

\* exact bin-wise sum over the ranks in S (no container)
RECURSIVE ExactSum(_, _, _, _)
ExactSum(buf, S, k, q) ==
    IF q < 0 THEN 0
    ELSE (IF q \in S THEN buf[q][k] ELSE 0) + ExactSum(buf, S, k, q - 1)

\* MPI_Reduce with MPI_SUM over the ranks in S
MPI_Sum(buf, S, np) == [k \in Bins |-> Wrap(ExactSum(buf, S, k, np - 1))]

SumOverflows(buf, S, np) ==
    \E k \in Bins : LET e == ExactSum(buf, S, k, np - 1)
                    IN  e > WORDMAX \/ e < WORDMIN

\* reduce_mpi_cpu, step by step
NormalizeLocal(in, np) == [p \in Ranks(np) |-> Normalize(in[p], IMIN, IMAX)]

ReduceLocal(in, out, np) ==
    [p \in Ranks(np) |->
        IF IsLeader(p) THEN MPI_Sum(in, GroupMembers(p, np), np) ELSE out[p]]

NormalizeLeaders(out, np) ==
    [p \in Ranks(np) |->
        IF IsLeader(p) THEN Normalize(out[p], IMIN, IMAX) ELSE out[p]]

ReduceLeaders(in, out, np) ==
    [p \in Ranks(np) |-> IF p = 0 THEN MPI_Sum(in, Leaders(np), np) ELSE out[p]]

Bcast(out, np) == [p \in Ranks(np) |-> out[0]]

reduce_mpi_cpu(in, out, np) ==
    Bind(NormalizeLocal(in, np), LAMBDA in1 :
    Bind(ReduceLocal(in1, out, np), LAMBDA out1 :
    Bind(NormalizeLeaders(out1, np), LAMBDA in2 :
    Bind(ReduceLeaders(in2, out1, np), LAMBDA out2 :
        Bcast(out2, np)))))

\* the local accumulator comes back in place of the combined one
doDot_superacc_MPI_ReturnsAcc(x, np) ==
    [p \in Ranks(np) |-> doDot_superacc_dense(x[p])]

\* dot of one distributed vector: what every rank gets back as receive
doDot_superacc_MPI(x, np) ==
    Bind([p \in Ranks(np) |-> doDot_superacc_dense(x[p])], LAMBDA acc :
        reduce_mpi_cpu(acc, [p \in Ranks(np) |-> ZeroAcc], np))

\* merge loop of the nested dot on one rank, i = from .. size-1
RECURSIVE MergeLoop(_, _, _)
MergeLoop(acc, i, size) ==
    IF i >= size THEN acc[0]
    ELSE Bind([acc EXCEPT ![0] = MergeBins(acc[0], acc[i]),
                          ![i] = Normalize(acc[i], IMIN, IMAX)],
              LAMBDA merged : MergeLoop(merged, i + 1, size))

\* dot of a vector of distributed vectors; x[i] is component i, size >= 1
doDot_superacc_nested(x, size, np) ==
    Bind([i \in 0 .. (size - 1) |-> doDot_superacc_MPI(x[i], np)],
         LAMBDA sub :
             [p \in Ranks(np) |->
                 MergeLoop([i \in 0 .. (size - 1) |-> sub[i][p]], 1, size)])

doDot(x, np) ==
    Bind(doDot_superacc_MPI(x, np), LAMBDA acc :
        [p \in Ranks(np) |-> Round(acc[p])])

doDot_nested(x, size, np) ==
    Bind(doDot_superacc_nested(x, size, np), LAMBDA acc :
        [p \in Ranks(np) |-> Round(acc[p])])

\* ------------------------------------------------------------------------
\* State
\* ------------------------------------------------------------------------
VARIABLES
    kx, ky,          \* operands of the dense dot, in the order they are fed
    h_superacc,      \* superaccumulator buffer the dense dot has filled
    kres,            \* double the dense dot has returned
    kref,            \* double returned for the operands in natural order
    kperm            \* "natural" or "permuted"

VARIABLES
    accs,            \* one superaccumulator per worker
    touched,         \* per accumulator: bins written since they were normalized
    nacc,            \* number of accumulations and merges so far
    op,              \* the last operation on accs and what it was applied to
    rounded          \* doubles returned by the Rounds since the last change

VARIABLES
    ndata,           \* operands of the nested dot: an array of <<x, P, y>>
    nblock,          \* the component each element belongs to
    nsize,           \* number of components
    nnp,             \* number of processes
    nres,            \* per rank: double returned by the nested dot
    nref             \* per rank: double returned by the dot of one component

VARIABLES
    dnp,             \* number of processes of the distributed dot
    dloc,            \* per rank: the local array of <<x, P, y>>
    dval,            \* per rank: double returned by the distributed dot
    dsingle,         \* <<double one process returns for the concatenated data>>
    cstage,          \* collective step the group has completed
    cin, cout,       \* per rank: send and receive buffer of reduce_mpi_cpu
    coverflow        \* a collective sum has left the bin container

VARIABLES
    pnp,             \* number of processes of the group
    pcalls,          \* ranks whose program calls the dot
    pdata,           \* per rank: the local array of <<x, P, y>>
    pc,              \* per rank: where the process stands in its call
    pacc, preceive,  \* per rank: acc and receive of doDot_superacc
    pret,            \* per rank: <<double returned by the call>>
    plocal,          \* per rank: <<buffer handed to the sub-group's reduce>>
    pleaders,        \* per leader: <<buffer handed to the leaders' reduce>>
    pbcast           \* <<buffer the root has broadcast>>

VARIABLES
    hnested,         \* the operands of the call are nested
    hsize,           \* x.size(), 1 for operands that are not nested
    hx,              \* per component: the local array of <<x, P, y>>
    hpc,             \* statement the process has reached
    hi,              \* loop index i of the nested dot
    hacc,            \* per component: its accumulator
    hphases,         \* phases the call has entered so far
    hret             \* <<double returned by the call>>

VARIABLES
    ea, eb,          \* operands of one error-free product
    edone,           \* TwoProductFMA has been applied to them
    ehead, etail     \* x and r1 of TwoProductFMA

VARIABLES
    sdebug,          \* the build defines DG_DEBUG
    sx, sy,          \* per component of x and of y: its one local element
    spc,             \* statement the nested dot has reached
    si,              \* loop index i
    sacc,            \* per component of x: its accumulator
    sreads,          \* indices i at which x[i] and y[i] have been read
    sret             \* <<double returned by the call>>

VARIABLES
    gdebug,          \* the build defines DG_DEBUG
    gx, gy, gP,      \* communicators of x, y and P
    gpc              \* statement the distributed dot has reached

VARIABLES
    ubuf,            \* the buffer h_superacc the caller hands to exdot_cpu
    uin,             \* array of <<x1, x2, x3>> of the latest call
    uprev,           \* array of the call before it
    unan,            \* the latest call had a NaN or Inf among its inputs
    ures,            \* Round of the buffer after the latest call
    ucalls           \* number of calls so far

VARIABLES
    wn,              \* number of concurrent workers
    wslice,          \* per worker: the products of its slice
    wnext,           \* per worker: index of the next product to accumulate
    wpriv,           \* per worker: its private accumulator
    wmerged,         \* workers whose accumulator is merged into the shared one
    wshared,         \* the shared accumulator
    wret             \* <<rounded result>> once every worker has merged

VARIABLES
    malpha, mbeta,   \* scalars of a symv/gemv call
    mP, mx,          \* matrix and right-hand vector
    my,              \* the vector y
    myold,           \* y as it was before the call
    mop              \* the call made: "none", "symv" or "gemv"

VARIABLES
    igrid,           \* the MPI grid: dimension, n, global and local cell numbers
    ifatal,          \* the communicator's error handler is MPI_ERRORS_ARE_FATAL
    iop,             \* index maps called so far
    iin,             \* arguments of the first call
    iret,            \* what the latest call returned ("abort": it did not return)
    iout,            \* output arguments of the first call, <<>> when not written
    iback            \* output arguments of the second call

VARIABLES
    tndebug,         \* the build defines NDEBUG: assert does nothing
    trank,           \* rank of this process in the grid's communicator
    tdims,           \* the process grid: processes per direction
    tbc,             \* the boundary conditions agree with the periods of comm
    tn,              \* g.n()
    tN,              \* g.Nx(), g.Ny() (, g.Nz()): global cell numbers
    tl,              \* l.Nx(), l.Ny() (, l.Nz()): local cell numbers
    tpc              \* "new", "alive" or, after a failed assert, "aborted"

VARIABLES
    zx,              \* per component of the nested operands: its local data
    zacc,            \* the vector acc of sub-accumulators
    zpc,             \* statement the nested dot has reached
    zi,              \* loop index
    zidx,            \* indices at which acc has been accessed
    zret             \* <<accumulator returned>>

VARIABLES
    bsize,           \* the unsigned argument size of exdot_cpu
    bN, br,          \* N and r of ExDOTFPE_cpu
    bi,              \* loop index i
    bpc,             \* statement the kernel has reached
    bdone,           \* indices whose products have been accumulated
    breads           \* indices of a and b that have been read

VARIABLES
    rdim,            \* 2 for aRefinedGrid2d, 3 for aRefinedGrid3d
    rn, rNz,         \* n and, in three dimensions, Nz
    rx, ry,          \* per direction: N, node, add, howmany and bc
    rpc,             \* statement the constructor has reached
    rsize,           \* size() of the refined grid: length of wx_, wy_, absX_, absY_
    rwx, rwy,        \* the vectors wx and wy of equidist_ref
    rwrites          \* indices of wx_, wy_, absX_, absY_ written so far

kvars == <<kx, ky, h_superacc, kres, kref, kperm>>
avars == <<accs, touched, nacc, op, rounded>>
nvars == <<ndata, nblock, nsize, nnp, nres, nref>>
dvars == <<dnp, dloc, dval, dsingle>>
cvars == <<cstage, cin, cout, coverflow>>
pvars == <<pnp, pcalls, pdata, pc, pacc, preceive, pret, plocal, pleaders, pbcast>>
uvars == <<ubuf, uin, uprev, unan, ures, ucalls>>
wvars == <<wn, wslice, wnext, wpriv, wmerged, wshared, wret>>
mvars == <<malpha, mbeta, mP, mx, my, myold, mop>>
ivars == <<igrid, ifatal, iop, iin, iret, iout, iback>>
tvars == <<tndebug, trank, tdims, tbc, tn, tN, tl, tpc>>
zvars == <<zx, zacc, zpc, zi, zidx, zret>>
bvars == <<bsize, bN, br, bi, bpc, bdone, breads>>
rvars == <<rdim, rn, rNz, rx, ry, rpc, rsize, rwx, rwy, rwrites>>
gvars == <<gdebug, gx, gy, gP, gpc>>
svars == <<sdebug, sx, sy, spc, si, sacc, sreads, sret>>
evars == <<ea, eb, edone, ehead, etail>>
hvars == <<hnested, hsize, hx, hpc, hi, hacc, hphases, hret>>
vars == <<kvars, avars, nvars, dvars, cvars, pvars, hvars, evars, svars, gvars, uvars, wvars, mvars, ivars, tvars, zvars, bvars, rvars>>

None == <<>>

NestedIdle ==
    /\ ndata = <<>>
    /\ nblock = <<>>
    /\ nsize = 1
    /\ nnp = 1
    /\ nres = None
    /\ nref = None

Workers == {1, 2}

DistIdle ==
    /\ dnp = 1
    /\ dloc = [p \in Ranks(1) |-> <<>>]
    /\ dval = None
    /\ dsingle = None

ProcIdle ==
    /\ pnp = 1
    /\ pcalls = Ranks(1)
    /\ pdata = [p \in Ranks(1) |-> <<>>]
    /\ pc = [p \in Ranks(1) |-> "idle"]
    /\ pacc = [p \in Ranks(1) |-> ZeroAcc]
    /\ preceive = [p \in Ranks(1) |-> ZeroAcc]
    /\ pret = [p \in Ranks(1) |-> <<>>]
    /\ plocal = [p \in Ranks(1) |-> <<>>]
    /\ pleaders = [p \in Ranks(1) |-> <<>>]
    /\ pbcast = <<>>

PhaseIdle ==
    /\ hnested = FALSE
    /\ hsize = 1
    /\ hx = [i \in 0 .. 0 |-> <<>>]
    /\ hpc = "idle"
    /\ hi = 0
    /\ hacc = [i \in 0 .. 0 |-> ZeroAcc]
    /\ hphases = <<"Idle">>
    /\ hret = <<>>

ProductIdle ==
    /\ ea = 0
    /\ eb = 0
    /\ edone = FALSE
    /\ ehead = 0
    /\ etail = 0

ShapeIdle ==
    /\ sdebug = FALSE
    /\ sx = <<>>
    /\ sy = <<>>
    /\ spc = "idle"
    /\ si = 0
    /\ sacc = <<>>
    /\ sreads = {}
    /\ sret = <<>>

\* a communicator: its handle and its processes in rank order
Comm(h, r) == [handle |-> h, ranks |-> r]

GroupIdle ==
    /\ gdebug = FALSE
    /\ gx = Comm(1, <<0>>)
    /\ gy = Comm(1, <<0>>)
    /\ gP = Comm(1, <<0>>)
    /\ gpc = "idle"

CallsIdle ==
    /\ ubuf = ZeroAcc
    /\ uin = <<>>
    /\ uprev = <<>>
    /\ unan = FALSE
    /\ ures = 0
    /\ ucalls = 0

WorkersIdle ==
    /\ wn = 0
    /\ wslice = <<>>
    /\ wnext = <<>>
    /\ wpriv = <<>>
    /\ wmerged = {}
    /\ wshared = ZeroAcc
    /\ wret = None

SymvIdle ==
    /\ malpha = 0
    /\ mbeta = 0
    /\ mP = <<>>
    /\ mx = <<>>
    /\ my = <<>>
    /\ myold = <<>>
    /\ mop = "none"

IndexIdle ==
    /\ igrid = <<>>
    /\ ifatal = FALSE
    /\ iop = "none"
    /\ iin = <<>>
    /\ iret = "none"
    /\ iout = <<>>
    /\ iback = <<>>

TopologyIdle ==
    /\ tndebug = FALSE
    /\ trank = 0
    /\ tdims = <<>>
    /\ tbc = TRUE
    /\ tn = 0
    /\ tN = <<>>
    /\ tl = <<>>
    /\ tpc = "idle"

SubAccsIdle ==
    /\ zx = <<>>
    /\ zacc = <<>>
    /\ zpc = "idle"
    /\ zi = 0
    /\ zidx = {}
    /\ zret = <<>>

SizeIdle ==
    /\ bsize = 0
    /\ bN = 0
    /\ br = 0
    /\ bi = 0
    /\ bpc = "idle"
    /\ bdone = {}
    /\ breads = {}

RefineIdle ==
    /\ rdim = 2
    /\ rn = 0
    /\ rNz = 1
    /\ rx = <<>>
    /\ ry = <<>>
    /\ rpc = "idle"
    /\ rsize = 0
    /\ rwx = <<>>
    /\ rwy = <<>>
    /\ rwrites = {}

CombineIdle ==
    /\ cstage = "idle"
    /\ cin = None
    /\ cout = None
    /\ coverflow = FALSE

KernelIdle ==
    /\ kx = <<>>
    /\ ky = <<>>
    /\ h_superacc = ZeroAcc
    /\ kres = 0
    /\ kref = 0
    /\ kperm = "natural"

AccIdle ==
    /\ accs = [j \in Workers |-> ZeroAcc]
    /\ touched = [j \in Workers |-> {}]
    /\ nacc = 0
    /\ op = [name |-> "none"]
    /\ rounded = <<>>

\* ------------------------------------------------------------------------
\* Dense dot over permuted operands
\* ------------------------------------------------------------------------
Big == Pow2(MANT + 1)

\* pairs (x[i], y[i]): short inputs draw from RichPairs, inputs longer than
\* one chunk from LongPairs; ReferencePairs is the exactness reference
RichPairs == {<<3, 3>>, <<Big, 1>>, <<-Big, 1>>, <<1, 1>>, <<-1, 1>>}
LongPairs == {<<3, 3>>, <<-Big, 1>>}
ReferencePairs ==
    << <<Big, 1>>, <<1, 1>>, <<-Big, 1>>, <<1, 1>>, <<1, 1>>, <<-1, 1>> >>

PairSeqs ==
    {ReferencePairs}
    \cup UNION {[1 .. n -> RichPairs] : n \in 0 .. MaxShort}
    \cup UNION {[1 .. n -> LongPairs] : n \in 0 .. MaxN}

First(ps) == [i \in 1 .. Len(ps) |-> ps[i][1]]
Second(ps) == [i \in 1 .. Len(ps) |-> ps[i][2]]

Swap12(s) ==
    [i \in 1 .. Len(s) |-> IF i = 1 THEN s[2] ELSE IF i = 2 THEN s[1] ELSE s[i]]
RotateLeft(s) ==
    [i \in 1 .. Len(s) |-> IF i = Len(s) THEN s[1] ELSE s[i + 1]]

KernelInit ==
    /\ \E ps \in PairSeqs :
        /\ kx = First(ps)
        /\ ky = Second(ps)
    /\ h_superacc = exdot_cpu(Len(kx), kx, ky, ZeroAcc)
    /\ kres = Round(h_superacc)
    /\ kref = kres
    /\ kperm = "natural"
    /\ AccIdle
    /\ NestedIdle
    /\ DistIdle
    /\ CombineIdle
    /\ ProcIdle
    /\ PhaseIdle
    /\ ProductIdle
    /\ ShapeIdle
    /\ GroupIdle
    /\ CallsIdle
    /\ WorkersIdle
    /\ SymvIdle
    /\ IndexIdle
    /\ TopologyIdle
    /\ SubAccsIdle
    /\ SizeIdle
    /\ RefineIdle

DotSwapped ==
    /\ Len(kx) >= 2
    /\ kx' = Swap12(kx)
    /\ ky' = Swap12(ky)
    /\ h_superacc' = exdot_cpu(Len(kx'), kx', ky', h_superacc)
    /\ kres' = Round(h_superacc')
    /\ kperm' = "permuted"
    /\ UNCHANGED kref

DotRotated ==
    /\ Len(kx) >= 2
    /\ kx' = RotateLeft(kx)
    /\ ky' = RotateLeft(ky)
    /\ h_superacc' = exdot_cpu(Len(kx'), kx', ky', h_superacc)
    /\ kres' = Round(h_superacc')
    /\ kperm' = "permuted"
    /\ UNCHANGED kref

KernelNext ==
    (DotSwapped \/ DotRotated)
        /\ UNCHANGED <<avars, nvars, dvars, cvars, pvars, hvars, evars, svars, gvars, uvars, wvars, mvars, ivars, tvars, zvars, bvars, rvars>>

SpecKernel == KernelInit /\ [][KernelNext]_vars

\* plain left-to-right double summation of the products
RECURSIVE NaiveDot(_, _, _, _)
NaiveDot(a, b, i, s) ==
    IF i > Len(a) THEN s
    ELSE NaiveDot(a, b, i + 1, RoundNearest(s + RoundNearest(a[i] * b[i])))

RECURSIVE Count(_, _, _)
Count(s, v, i) ==
    IF i > Len(s) THEN 0 ELSE (IF s[i] = v THEN 1 ELSE 0) + Count(s, v, i + 1)

\* C1: the dense dot returns the same double for every order in which the
\* pairs (x[i], y[i]) are fed as for the natural order.
OrderIndependence == kres = kref

OrderIndependenceWitness ==
    /\ kperm = "permuted"
    /\ Len(kx) > VLEN
    /\ kx[1] = 3
    /\ kx[Len(kx)] = -Big
    /\ NaiveDot(kx, ky, 1, 0) # kres
    /\ NaiveDot(kx, ky, 1, 0)
           # NaiveDot(RotateLeft(kx), RotateLeft(ky), 1, 0)

\* the sum of a[i] * b[i] over i = from .. Len(a), in infinite precision
RECURSIVE ExactDot(_, _, _)
ExactDot(a, b, from) ==
    IF from > Len(a) THEN 0 ELSE a[from] * b[from] + ExactDot(a, b, from + 1)

\* C14: for every length, whether a multiple of the chunk width, shorter than
\* one chunk or with a remainder, the accumulator of the two-operand kernel
\* holds the exact sum of a[i] * b[i]: head and tail of every product once.
KernelExactSum == Value(h_superacc) = ExactDot(kx, ky, 1)

KernelExactSumWitness ==
    /\ kperm = "permuted"
    /\ Len(kx) = VLEN + 1
    /\ TwoProductFMA(kx[VLEN + 1], ky[VLEN + 1]).tail # 0
    /\ TwoProductFMA(kx[1], ky[1]).tail # 0
    /\ Value(h_superacc) = ExactDot(kx, ky, 1)
    /\ ExactDot(kx, ky, 1) # kres

\* C5: summing [Big, 1, -Big, 1, 1, -1] (Big + 1 is no double) against a
\* vector of ones returns exactly 2, in every order of the six elements.
IsReferenceInput ==
    /\ Len(kx) = 6
    /\ Count(kx, Big, 1) = 1
    /\ Count(kx, -Big, 1) = 1
    /\ Count(kx, 1, 1) = 3
    /\ Count(kx, -1, 1) = 1
    /\ \A i \in 1 .. 6 : ky[i] = 1

ExactnessReference == IsReferenceInput => kres = 2

ExactnessReferenceWitness ==
    /\ IsReferenceInput
    /\ kperm = "permuted"
    /\ kx = <<Big, 1, -Big, 1, 1, -1>>
    /\ NaiveDot(kx, ky, 1, 0) # 2

\* ------------------------------------------------------------------------
\* Superaccumulators of the workers: accumulate, normalize, merge, round
\* ------------------------------------------------------------------------
MaxAcc == 2

\* doubles whose digits land in bins 0, 1 and 2
AccVals == {6, -1, 6 * DELTASCALE, -DELTASCALE * DELTASCALE}

Ranges == {r \in Bins \X Bins : r[1] <= r[2]}

Written(before, after) == {k \in Bins : before[k] # after[k]}

AccInit ==
    /\ AccIdle
    /\ KernelIdle
    /\ NestedIdle
    /\ DistIdle
    /\ CombineIdle
    /\ ProcIdle
    /\ PhaseIdle
    /\ ProductIdle
    /\ ShapeIdle
    /\ GroupIdle
    /\ CallsIdle
    /\ WorkersIdle
    /\ SymvIdle
    /\ IndexIdle
    /\ TopologyIdle
    /\ SubAccsIdle
    /\ SizeIdle
    /\ RefineIdle

AccumulateStep(j, v) ==
    /\ nacc < MaxAcc
    /\ accs' = [accs EXCEPT ![j] = Accumulate(accs[j], v)]
    /\ touched' = [touched EXCEPT ![j] = @ \cup Written(accs[j], accs'[j])]
    /\ nacc' = nacc + 1
    /\ op' = [name |-> "accumulate", j |-> j]
    /\ rounded' = <<>>

NormalizeStep(j, imin, imax) ==
    /\ accs' = [accs EXCEPT ![j] = Normalize(accs[j], imin, imax)]
    /\ touched' = [touched EXCEPT ![j] = {k \in @ : k < imin}]
    /\ op' = [name |-> "normalize", j |-> j, imin |-> imin, imax |-> imax,
              covered |-> touched[j] \subseteq imin .. imax,
              before |-> accs[j]]
    /\ rounded' = <<>>
    /\ UNCHANGED nacc

MergeStep(i, j) ==
    /\ i # j
    /\ nacc < MaxAcc
    /\ accs' = [accs EXCEPT ![i] = MergeBins(accs[i], accs[j]),
                            ![j] = Normalize(accs[j], IMIN, IMAX)]
    /\ touched' = [touched EXCEPT ![i] = Written(Normalize(accs[i], IMIN, IMAX),
                                                 accs'[i]),
                                  ![j] = {}]
    /\ op' = [name |-> "merge", j |-> i, from |-> j,
              before |-> accs[i], other |-> accs[j]]
    /\ rounded' = <<>>
    /\ nacc' = nacc + 1

RoundStep(j) ==
    /\ Len(rounded) < 2
    /\ op.name = "round" => op.j = j
    /\ accs' = [accs EXCEPT ![j] = RoundAcc(accs[j])]
    /\ touched' = [touched EXCEPT ![j] = {}]
    /\ op' = [name |-> "round", j |-> j]
    /\ rounded' = IF op.name = "round" THEN Append(rounded, Round(accs[j]))
                                       ELSE <<Round(accs[j])>>
    /\ UNCHANGED nacc

AccNext ==
    /\ \/ \E j \in Workers, v \in AccVals : AccumulateStep(j, v)
       \/ \E j \in Workers, r \in Ranges : NormalizeStep(j, r[1], r[2])
       \/ \E i, j \in Workers : MergeStep(i, j)
       \/ \E j \in Workers : RoundStep(j)
    /\ UNCHANGED <<kvars, nvars, dvars, cvars, pvars, hvars, evars, svars, gvars, uvars, wvars, mvars, ivars, tvars, zvars, bvars, rvars>>

SpecAcc == AccInit /\ [][AccNext]_vars

FitsKappa(b) == b > -DELTASCALE /\ b < DELTASCALE

WorkerAccs == {accs[j] : j \in Workers}

\* C6: merging two accumulators is commutative and associative in every bin,
\* and the merged accumulator stands for the sum of the two values.
MergeCommutativeAssociative ==
    \A A \in WorkerAccs, B \in WorkerAccs, C \in WorkerAccs :
        /\ MergeBins(A, B) = MergeBins(B, A)
        /\ MergeBins(MergeBins(A, B), C) = MergeBins(A, MergeBins(B, C))
        /\ Value(MergeBins(A, B)) = Value(A) + Value(B)

\* C7: a second Normalize over the same range, with nothing accumulated in
\* between, leaves every bin unchanged.
NormalizeIdempotent ==
    op.name = "normalize"
        => Normalize(accs[op.j], op.imin, op.imax) = accs[op.j]

NormalizeIdempotentWitness ==
    /\ op.name = "normalize"
    /\ op.imin > IMIN
    /\ op.imax < IMAX
    /\ op.before # accs[op.j]
    /\ \E k \in Bins : ~FitsKappa(op.before[k])

RoundIdempotent == Len(rounded) = 2 => rounded[1] = rounded[2]

RoundIdempotentWitness ==
    /\ Len(rounded) = 2
    /\ rounded[1] # 0
    /\ rounded[1] # Value(accs[op.j])

\* ------------------------------------------------------------------------
\* Nested dot: the operands split into components
\* ------------------------------------------------------------------------
MaxLen == 3
MaxComp == 2

TripleVals == {<<3, 1, 3>>, <<-1, 1, 1>>, <<Big, 1, 1>>}
NestedProcs == {1, 2}

\* the elements of t with an index in S, in their order
RECURSIVE Select(_, _, _)
Select(t, S, i) ==
    IF i > Len(t) THEN <<>>
    ELSE (IF i \in S THEN <<t[i]>> ELSE <<>>) \o Select(t, S, i + 1)

\* element j lives on rank (j - 1) % np
OwnedBy(p, len, np) == {j \in 1 .. len : (j - 1) % np = p}

Component(i) ==
    [p \in Ranks(nnp) |->
        Select(ndata,
               {j \in OwnedBy(p, Len(ndata), nnp) : nblock[j] = i}, 1)]

Flat == [p \in Ranks(nnp) |-> Select(ndata, OwnedBy(p, Len(ndata), nnp), 1)]

NestedInit ==
    /\ \E len \in 0 .. MaxLen, k \in 1 .. MaxComp :
        /\ ndata \in [1 .. len -> TripleVals]
        /\ nblock \in [1 .. len -> 0 .. (k - 1)]
        /\ nsize = k
    /\ nnp \in NestedProcs
    /\ nres = None
    /\ nref = None
    /\ KernelIdle
    /\ AccIdle
    /\ DistIdle
    /\ CombineIdle
    /\ ProcIdle
    /\ PhaseIdle
    /\ ProductIdle
    /\ ShapeIdle
    /\ GroupIdle
    /\ CallsIdle
    /\ WorkersIdle
    /\ SymvIdle
    /\ IndexIdle
    /\ TopologyIdle
    /\ SubAccsIdle
    /\ SizeIdle
    /\ RefineIdle

CallNested ==
    /\ nres = None
    /\ nres' = doDot_nested([i \in 0 .. (nsize - 1) |-> Component(i)],
                            nsize, nnp)
    /\ UNCHANGED <<ndata, nblock, nsize, nnp, nref>>

CallFlat ==
    /\ nref = None
    /\ nref' = doDot(Flat, nnp)
    /\ UNCHANGED <<ndata, nblock, nsize, nnp, nres>>

NestedNext ==
    (CallNested \/ CallFlat)
        /\ UNCHANGED <<kvars, avars, dvars, cvars, pvars, hvars, evars, svars, gvars, uvars, wvars, mvars, ivars, tvars, zvars, bvars, rvars>>

SpecNested == NestedInit /\ [][NestedNext]_vars

\* C2: however the index set is split into blocks, reducing each block into
\* its own accumulator, merging the accumulators and rounding returns what
\* reducing the whole sequence into one accumulator and rounding returns.
PartitionIndependence ==
    (nres # None /\ nref # None) => nres = nref

\* ------------------------------------------------------------------------
\* Distributed dot of one vector against the dot of the concatenated data
\* ------------------------------------------------------------------------
ProcCounts == {1, 2, 4, 8}

DistVals == {<<3, 3, 1>>, <<-3, 1, 1>>}

\* contiguous shares: the rank that owns an element never decreases
Shares(len, np) ==
    {o \in [1 .. len -> Ranks(np)] :
        \A j \in 1 .. len : j < len => o[j] <= o[j + 1]}

Distribute(t, o, np) ==
    [p \in Ranks(np) |-> Select(t, {j \in 1 .. Len(t) : o[j] = p}, 1)]

RECURSIVE Concat(_, _, _)
Concat(x, p, np) == IF p >= np THEN <<>> ELSE x[p] \o Concat(x, p + 1, np)

DistInit ==
    /\ dnp \in ProcCounts
    /\ \E len \in 0 .. MaxLen :
        \E t \in [1 .. len -> DistVals], o \in Shares(len, dnp) :
            dloc = Distribute(t, o, dnp)
    /\ dval = None
    /\ dsingle = None
    /\ KernelIdle
    /\ AccIdle
    /\ NestedIdle
    /\ CombineIdle
    /\ ProcIdle
    /\ PhaseIdle
    /\ ProductIdle
    /\ ShapeIdle
    /\ GroupIdle
    /\ CallsIdle
    /\ WorkersIdle
    /\ SymvIdle
    /\ IndexIdle
    /\ TopologyIdle
    /\ SubAccsIdle
    /\ SizeIdle
    /\ RefineIdle

CallDistributed ==
    /\ dval = None
    /\ dval' = doDot(dloc, dnp)
    /\ UNCHANGED <<dnp, dloc, dsingle>>

CallSingle ==
    /\ dsingle = None
    /\ dsingle' = <<doDot([p \in Ranks(1) |-> Concat(dloc, 0, dnp)], 1)[0]>>
    /\ UNCHANGED <<dnp, dloc, dval>>

DistNext ==
    (CallDistributed \/ CallSingle)
        /\ UNCHANGED <<kvars, avars, nvars, cvars, pvars, hvars, evars, svars, gvars, uvars, wvars, mvars, ivars, tvars, zvars, bvars, rvars>>

SpecDist == DistInit /\ [][DistNext]_vars

\* C3: over 1, 2, 4 or 8 processes and any shares, empty ones included, every
\* rank gets from the distributed dot the double that a single process
\* returns for the concatenated data.
DistributedEquivalence ==
    (dval # None /\ dsingle # None)
        => \A p \in Ranks(dnp) : dval[p] = dsingle[1]

DistributedEquivalenceWitness ==
    /\ dval # None
    /\ dsingle # None
    /\ dnp = 8
    /\ \E p \in Ranks(dnp) : dloc[p] = <<>>
    /\ \E p \in Ranks(dnp) : Len(dloc[p]) >= 2
    /\ \E p \in Ranks(dnp) : p > 0 /\ Round(doDot_superacc_dense(dloc[p])) # dsingle[1]
    /\ dsingle[1] # 0

\* ------------------------------------------------------------------------
\* The two-level combine, one collective step at a time
\* ------------------------------------------------------------------------
\* one leader more than a single collective sum of normalized accumulators
\* can take: every bin below the top holds up to 2^DIGITS - 1
FanIn == Pow2(KRX - 1)

ManyProcs == MOD * FanIn + 1

CombineInit ==
    /\ dnp \in 1 .. ManyProcs
    /\ \E even \in TripleVals, odd \in TripleVals :
        dloc = [p \in Ranks(dnp) |-> IF p % 2 = 0 THEN <<even>> ELSE <<odd>>]
    /\ dval = None
    /\ dsingle = None
    /\ CombineIdle
    /\ KernelIdle
    /\ AccIdle
    /\ NestedIdle
    /\ ProcIdle
    /\ PhaseIdle
    /\ ProductIdle
    /\ ShapeIdle
    /\ GroupIdle
    /\ CallsIdle
    /\ WorkersIdle
    /\ SymvIdle
    /\ IndexIdle
    /\ TopologyIdle
    /\ SubAccsIdle
    /\ SizeIdle
    /\ RefineIdle

CombineLocal ==
    /\ cstage = "idle"
    /\ cin' = [p \in Ranks(dnp) |-> doDot_superacc_dense(dloc[p])]
    /\ cout' = [p \in Ranks(dnp) |-> ZeroAcc]
    /\ cstage' = "accumulated"
    /\ UNCHANGED <<coverflow, dvars>>

CombineNormalizeLocal ==
    /\ cstage = "accumulated"
    /\ cin' = NormalizeLocal(cin, dnp)
    /\ cstage' = "normalized"
    /\ UNCHANGED <<cout, coverflow, dvars>>

CombineReduceLocal ==
    /\ cstage = "normalized"
    /\ cout' = ReduceLocal(cin, cout, dnp)
    /\ coverflow' = (coverflow \/ \E p \in Leaders(dnp) :
                        SumOverflows(cin, GroupMembers(p, dnp), dnp))
    /\ cstage' = "reduced"
    /\ UNCHANGED <<cin, dvars>>

CombineNormalizeLeaders ==
    /\ cstage = "reduced"
    /\ cout' = NormalizeLeaders(cout, dnp)
    /\ cstage' = "leaders"
    /\ UNCHANGED <<cin, coverflow, dvars>>

CombineReduceLeaders ==
    /\ cstage = "leaders"
    /\ cout' = ReduceLeaders(cout, cout, dnp)
    /\ coverflow' = (coverflow \/ SumOverflows(cout, Leaders(dnp), dnp))
    /\ cstage' = "combined"
    /\ UNCHANGED <<cin, dvars>>

CombineBcast ==
    /\ cstage = "combined"
    /\ cout' = Bcast(cout, dnp)
    /\ cstage' = "broadcast"
    /\ UNCHANGED <<cin, coverflow, dvars>>

CombineRound ==
    /\ cstage = "broadcast"
    /\ dval' = [p \in Ranks(dnp) |-> Round(cout[p])]
    /\ cstage' = "rounded"
    /\ UNCHANGED <<cin, cout, coverflow, dnp, dloc, dsingle>>

CombineNext ==
    /\ \/ CombineLocal
       \/ CombineNormalizeLocal
       \/ CombineReduceLocal
       \/ CombineNormalizeLeaders
       \/ CombineReduceLeaders
       \/ CombineBcast
       \/ CombineRound
    /\ UNCHANGED <<kvars, avars, nvars, pvars, hvars, evars, svars, gvars, uvars, wvars, mvars, ivars, tvars, zvars, bvars, rvars>>

SpecCombine == CombineInit /\ [][CombineNext]_vars

\* C10: in no reachable state of a reduction, for any number of processes,
\* has a sum left the range of the signed container of a bin.
NoBinOverflow == ~coverflow

\* ------------------------------------------------------------------------
\* One distributed dot call, process by process
\* ------------------------------------------------------------------------
MaxProcs == 3

ProcArrays == {<<>>, <<<<3, 3, 1>>>>, <<<<-3, 1, 1>>>>}

\* every process calls, or all but one
CallSets(np) == {Ranks(np)} \cup {Ranks(np) \ {q} : q \in Ranks(np)}

Init ==
    /\ pnp \in 1 .. MaxProcs
    /\ pcalls \in CallSets(pnp)
    /\ pdata \in [Ranks(pnp) -> ProcArrays]
    /\ pc = [p \in Ranks(pnp) |-> "idle"]
    /\ pacc = [p \in Ranks(pnp) |-> ZeroAcc]
    /\ preceive = [p \in Ranks(pnp) |-> ZeroAcc]
    /\ pret = [p \in Ranks(pnp) |-> <<>>]
    /\ plocal = [p \in Ranks(pnp) |-> <<>>]
    /\ pleaders = [p \in Ranks(pnp) |-> <<>>]
    /\ pbcast = <<>>
    /\ KernelIdle
    /\ AccIdle
    /\ NestedIdle
    /\ DistIdle
    /\ CombineIdle
    /\ PhaseIdle
    /\ ProductIdle
    /\ ShapeIdle
    /\ GroupIdle
    /\ CallsIdle
    /\ WorkersIdle
    /\ SymvIdle
    /\ IndexIdle
    /\ TopologyIdle
    /\ SubAccsIdle
    /\ SizeIdle
    /\ RefineIdle

\* the local dot of doDot_superacc, and receive set to zero
LocalDot(p) ==
    /\ pc[p] = "idle"
    /\ p \in pcalls
    /\ pacc' = [pacc EXCEPT ![p] = doDot_superacc_dense(pdata[p])]
    /\ preceive' = [preceive EXCEPT ![p] = ZeroAcc]
    /\ pc' = [pc EXCEPT ![p] = "accumulated"]
    /\ UNCHANGED <<pnp, pcalls, pdata, pret, plocal, pleaders, pbcast>>

\* reduce_mpi_cpu: the send buffer is normalized
NormalizeIn(p) ==
    /\ pc[p] = "accumulated"
    /\ pacc' = [pacc EXCEPT ![p] = Normalize(pacc[p], IMIN, IMAX)]
    /\ pc' = [pc EXCEPT ![p] = "normalized"]
    /\ UNCHANGED <<pnp, pcalls, pdata, preceive, pret, plocal, pleaders, pbcast>>

\* reduce_mpi_cpu: the process enters the reduce of its sub-group; only the
\* leader has to wait for the sum
EnterLocalReduce(p) ==
    /\ pc[p] = "normalized"
    /\ plocal' = [plocal EXCEPT ![p] = <<pacc[p]>>]
    /\ pc' = [pc EXCEPT ![p] = IF IsLeader(p) THEN "local_reduce"
                                              ELSE "bcast"]
    /\ UNCHANGED <<pnp, pcalls, pdata, pacc, preceive, pret, pleaders, pbcast>>

Handed(buf, np) == [q \in Ranks(np) |-> IF buf[q] = <<>> THEN ZeroAcc
                                                          ELSE buf[q][1]]

\* reduce_mpi_cpu: the leader leaves the reduce of its sub-group
LeaveLocalReduce(p) ==
    /\ pc[p] = "local_reduce"
    /\ \A q \in GroupMembers(p, pnp) : plocal[q] # <<>>
    /\ preceive' = [preceive EXCEPT
                       ![p] = MPI_Sum(Handed(plocal, pnp),
                                      GroupMembers(p, pnp), pnp)]
    /\ pc' = [pc EXCEPT ![p] = "local_reduced"]
    /\ UNCHANGED <<pnp, pcalls, pdata, pacc, pret, plocal, pleaders, pbcast>>

\* only rank 0 enters the reduce of the leaders
EnterLeadersReduce_RootOnly(p) ==
    /\ pc[p] = "local_reduced"
    /\ LET n == Normalize(preceive[p], IMIN, IMAX)
       IN  /\ preceive' = [preceive EXCEPT ![p] = n]
           /\ pacc' = [pacc EXCEPT ![p] = n]
           /\ pleaders' = IF p = 0 THEN [pleaders EXCEPT ![p] = <<n>>]
                                  ELSE pleaders
    /\ pc' = [pc EXCEPT ![p] = IF p = 0 THEN "leaders_reduce" ELSE "bcast"]
    /\ UNCHANGED <<pnp, pcalls, pdata, pret, plocal, pbcast>>

\* reduce_mpi_cpu: a leader normalizes the sum of its sub-group, copies it
\* to the send buffer and enters the reduce of the leaders
EnterLeadersReduce(p) ==
    /\ pc[p] = "local_reduced"
    /\ LET n == Normalize(preceive[p], IMIN, IMAX)
       IN  /\ preceive' = [preceive EXCEPT ![p] = n]
           /\ pacc' = [pacc EXCEPT ![p] = n]
           /\ pleaders' = [pleaders EXCEPT ![p] = <<n>>]
    /\ pc' = [pc EXCEPT ![p] = IF p = 0 THEN "leaders_reduce" ELSE "bcast"]
    /\ UNCHANGED <<pnp, pcalls, pdata, pret, plocal, pbcast>>

\* reduce_mpi_cpu: rank 0 leaves the reduce of the leaders
LeaveLeadersReduce(p) ==
    /\ pc[p] = "leaders_reduce"
    /\ \A q \in Leaders(pnp) : pleaders[q] # <<>>
    /\ preceive' = [preceive EXCEPT
                       ![p] = MPI_Sum(Handed(pleaders, pnp),
                                      Leaders(pnp), pnp)]
    /\ pc' = [pc EXCEPT ![p] = "bcast"]
    /\ UNCHANGED <<pnp, pcalls, pdata, pacc, pret, plocal, pleaders, pbcast>>

\* reduce_mpi_cpu: rank 0 broadcasts, the others receive
BcastStep(p) ==
    /\ pc[p] = "bcast"
    /\ IF p = 0
       THEN /\ pbcast' = <<preceive[p]>>
            /\ UNCHANGED preceive
       ELSE /\ pbcast # <<>>
            /\ preceive' = [preceive EXCEPT ![p] = pbcast[1]]
            /\ UNCHANGED pbcast
    /\ pc' = [pc EXCEPT ![p] = "combined"]
    /\ UNCHANGED <<pnp, pcalls, pdata, pacc, pret, plocal, pleaders>>

\* acc comes back in place of receive
RoundReturn_Acc(p) ==
    /\ pc[p] = "combined"
    /\ pret' = [pret EXCEPT ![p] = <<Round(pacc[p])>>]
    /\ pc' = [pc EXCEPT ![p] = "returned"]
    /\ UNCHANGED <<pnp, pcalls, pdata, pacc, preceive, plocal, pleaders, pbcast>>

\* doDot_superacc returns receive and doDot rounds it
\* the call returns without waiting for the broadcast
RoundReturn_Early(p) ==
    /\ pc[p] \in {"bcast", "combined"}
    /\ pret' = [pret EXCEPT ![p] = <<Round(preceive[p])>>]
    /\ pc' = [pc EXCEPT ![p] = "returned"]
    /\ UNCHANGED <<pnp, pcalls, pdata, pacc, preceive, plocal, pleaders, pbcast>>

RoundReturn(p) ==
    /\ pc[p] = "combined"
    /\ pret' = [pret EXCEPT ![p] = <<Round(preceive[p])>>]
    /\ pc' = [pc EXCEPT ![p] = "returned"]
    /\ UNCHANGED <<pnp, pcalls, pdata, pacc, preceive, plocal, pleaders, pbcast>>

Next ==
    /\ \E p \in Ranks(pnp) :
        \/ LocalDot(p)
        \/ NormalizeIn(p)
        \/ EnterLocalReduce(p)
        \/ LeaveLocalReduce(p)
        \/ EnterLeadersReduce(p)
        \/ LeaveLeadersReduce(p)
        \/ BcastStep(p)
        \/ RoundReturn(p)
    /\ UNCHANGED <<kvars, avars, nvars, dvars, cvars, hvars, evars, svars, gvars, uvars, wvars, mvars, ivars, tvars, zvars, bvars, rvars>>

Spec == Init /\ [][Next]_vars

AllReturned == \A p \in Ranks(pnp) : pc[p] = "returned"

\* C4: once the call has returned on all processes of the group, leaders and
\* non-leaders alike hold the same returned value.
Agreement ==
    AllReturned => \A p, q \in Ranks(pnp) : pret[p] = pret[q]

AgreementWitness ==
    /\ AllReturned
    /\ pnp > MOD
    /\ \E p, q \in Ranks(pnp) :
        /\ IsLeader(p) /\ ~IsLeader(q)
        /\ pret[p] = pret[q]
        /\ Round(doDot_superacc_dense(pdata[p])) # pret[p][1]
        /\ Round(doDot_superacc_dense(pdata[q])) # pret[q][1]
        /\ Round(doDot_superacc_dense(pdata[p])) #
               Round(doDot_superacc_dense(pdata[q]))

Contributed == {q \in Ranks(pnp) : plocal[q] # <<>>}

\* C11: no process leaves the combine before every process of the group has
\* handed over its local accumulator; if one process never calls, no process
\* ever returns.
NoEarlyResult ==
    /\ \A p \in Ranks(pnp) :
        pc[p] \in {"combined", "returned"} => Contributed = Ranks(pnp)
    /\ pcalls # Ranks(pnp) => \A p \in Ranks(pnp) : pret[p] = <<>>

NoEarlyResultWitness ==
    /\ pnp > MOD
    /\ \E p, q \in Ranks(pnp) :
        /\ pc[p] = "returned"
        /\ GroupOf(p) # GroupOf(q)
        /\ pc[q] = "bcast"

\* the process has a step to take: it is at no collective, or the collective
\* it is in has what it waits for
CanStep(p) ==
    /\ p \in Ranks(pnp)
    /\ \/ pc[p] = "idle" /\ p \in pcalls
       \/ pc[p] \in {"accumulated", "normalized", "local_reduced", "combined"}
       \/ pc[p] = "local_reduce"
            /\ \A q \in GroupMembers(p, pnp) : plocal[q] # <<>>
       \/ pc[p] = "leaders_reduce" /\ \A q \in Leaders(pnp) : pleaders[q] # <<>>
       \/ pc[p] = "bcast" /\ (p = 0 \/ pbcast # <<>>)

\* where the step of the process takes it
NextPc(p) ==
    CASE pc[p] = "idle" -> "accumulated"
      [] pc[p] = "accumulated" -> "normalized"
      [] pc[p] = "normalized" -> IF IsLeader(p) THEN "local_reduce" ELSE "bcast"
      [] pc[p] = "local_reduce" -> "local_reduced"
      [] pc[p] = "local_reduced" -> IF p = 0 THEN "leaders_reduce" ELSE "bcast"
      [] pc[p] = "leaders_reduce" -> "bcast"
      [] pc[p] = "bcast" -> "combined"
      [] OTHER -> "returned"

Advance(p) == CanStep(p) /\ pc' = [pc EXCEPT ![p] = NextPc(p)]

\* the processes are scheduled fairly: a process that can step does
Fairness == \A p \in 0 .. (MaxProcs - 1) : WF_pc(Advance(p))

SpecFair == Spec /\ Fairness

\* C12: if every process of the group calls the distributed dot, then under
\* fair scheduling every process eventually returns from the call.
CombineTermination == (pcalls = Ranks(pnp)) => <>AllReturned

CombineTerminationWitness ==
    /\ AllReturned
    /\ \E p \in Leaders(pnp) : p # 0 /\ GroupMembers(p, pnp) = {p}
    /\ \E p \in Leaders(pnp) : Cardinality(GroupMembers(p, pnp)) = MOD

\* ------------------------------------------------------------------------
\* The phases of one call on one process (a group of one process)
\* ------------------------------------------------------------------------
PhaseArrays == {<<>>} \cup {<<t>> : t \in TripleVals}

PhaseInit ==
    /\ hnested \in BOOLEAN
    /\ hsize \in (IF hnested THEN 1 .. MaxComp ELSE {1})
    /\ hx \in [0 .. (hsize - 1) -> PhaseArrays]
    /\ hpc = "idle"
    /\ hi = 0
    /\ hacc = [i \in 0 .. (hsize - 1) |-> ZeroAcc]
    /\ hphases = <<"Idle">>
    /\ hret = <<>>
    /\ KernelIdle
    /\ AccIdle
    /\ NestedIdle
    /\ DistIdle
    /\ CombineIdle
    /\ ProcIdle
    /\ ProductIdle
    /\ ShapeIdle
    /\ GroupIdle
    /\ CallsIdle
    /\ WorkersIdle
    /\ SymvIdle
    /\ IndexIdle
    /\ TopologyIdle
    /\ SubAccsIdle
    /\ SizeIdle
    /\ RefineIdle

\* doDot calls doDot_superacc
PhaseCall ==
    /\ hpc = "idle"
    /\ hpc' = "local"
    /\ hi' = 0
    /\ UNCHANGED <<hnested, hsize, hx, hacc, hphases, hret>>

\* the local dot of component i
PhaseLocalDot ==
    /\ hpc = "local"
    /\ hacc' = [hacc EXCEPT ![hi] = doDot_superacc_dense(hx[hi])]
    /\ hphases' = Append(hphases, "Accumulating")
    /\ hpc' = "normalize"
    /\ UNCHANGED <<hnested, hsize, hx, hi, hret>>

\* reduce_mpi_cpu of component i: the send buffer is normalized
PhaseNormalizeIn ==
    /\ hpc = "normalize"
    /\ hacc' = [hacc EXCEPT ![hi] = Normalize(hacc[hi], IMIN, IMAX)]
    /\ hphases' = Append(hphases, "NormalizedLocal")
    /\ hpc' = "combine"
    /\ UNCHANGED <<hnested, hsize, hx, hi, hret>>

\* reduce_mpi_cpu of component i: the reduces and the broadcast; the nested
\* dot goes on with the next component
PhaseCombine ==
    /\ hpc = "combine"
    /\ hacc' = [hacc EXCEPT ![hi] =
                   reduce_mpi_cpu([p \in Ranks(1) |-> hacc[hi]],
                                  [p \in Ranks(1) |-> ZeroAcc], 1)[0]]
    /\ hphases' = Append(hphases, "Combining")
    /\ IF hi + 1 < hsize
       THEN hi' = hi + 1 /\ hpc' = "local"
       ELSE hi' = 1 /\ hpc' = (IF hsize > 1 THEN "merge" ELSE "round")
    /\ UNCHANGED <<hnested, hsize, hx, hret>>

\* one turn of the merge loop of the nested dot
PhaseMerge ==
    /\ hpc = "merge"
    /\ hacc' = [hacc EXCEPT ![0] = MergeBins(hacc[0], hacc[hi]),
                            ![hi] = Normalize(hacc[hi], IMIN, IMAX)]
    /\ hi' = hi + 1
    /\ hpc' = (IF hi + 1 < hsize THEN "merge" ELSE "round")
    /\ UNCHANGED <<hnested, hsize, hx, hphases, hret>>

\* Round: the accumulator is normalized in place
PhaseRoundNormalize ==
    /\ hpc = "round"
    /\ hacc' = [hacc EXCEPT ![0] = Normalize(hacc[0], IMIN, IMAX)]
    /\ hphases' = Append(hphases, "NormalizedGlobal")
    /\ hpc' = "rounding"
    /\ UNCHANGED <<hnested, hsize, hx, hi, hret>>

\* Round: the double nearest to the value
PhaseRound ==
    /\ hpc = "rounding"
    /\ hret' = <<RoundNearest(Value(hacc[0]))>>
    /\ hphases' = Append(hphases, "Rounded")
    /\ hpc' = "return"
    /\ UNCHANGED <<hnested, hsize, hx, hi, hacc>>

\* doDot returns
PhaseReturn ==
    /\ hpc = "return"
    /\ hphases' = Append(hphases, "Idle")
    /\ hpc' = "done"
    /\ UNCHANGED <<hnested, hsize, hx, hi, hacc, hret>>

PhaseNext ==
    /\ \/ PhaseCall
       \/ PhaseLocalDot
       \/ PhaseNormalizeIn
       \/ PhaseCombine
       \/ PhaseMerge
       \/ PhaseRoundNormalize
       \/ PhaseRound
       \/ PhaseReturn
    /\ UNCHANGED <<kvars, avars, nvars, dvars, cvars, pvars, evars, svars, gvars, uvars, wvars, mvars, ivars, tvars, zvars, bvars, rvars>>

SpecPhases == PhaseInit /\ [][PhaseNext]_vars

PhaseSeq ==
    <<"Idle", "Accumulating", "NormalizedLocal", "Combining",
      "NormalizedGlobal", "Rounded", "Idle">>

\* C13: the phases a call has entered are, in this order and each once, Idle,
\* Accumulating, Normalized(local), Combining, Normalized(global), Rounded,
\* Idle, and there is no value before Rounded.
PhaseOrder ==
    /\ Len(hphases) <= Len(PhaseSeq)
    /\ \A k \in 1 .. Len(hphases) : hphases[k] = PhaseSeq[k]
    /\ hret # <<>> => \E k \in 1 .. Len(hphases) : hphases[k] = "Rounded"

\* the sum over i = from .. Len(t) of round(x[i] * P[i]) * y[i], in infinite
\* precision: head plus tail of the second error-free product
RECURSIVE HeadTimesC(_, _)
HeadTimesC(t, from) ==
    IF from > Len(t) THEN 0
    ELSE RoundNearest(t[from][1] * t[from][2]) * t[from][3]
             + HeadTimesC(t, from + 1)

\* C15: the three-operand kernel accumulates, for every index, the head and
\* the tail of the error-free product of round(a[i] * b[i]) and c[i].
ThreeOperandHeadAndTail ==
    hpc = "normalize" => Value(hacc[hi]) = HeadTimesC(hx[hi], 1)

\* ------------------------------------------------------------------------
\* The error-free product on its own
\* ------------------------------------------------------------------------
MaxOperand == 12

IsDouble(v) == RoundNearest(v) = v

Operands == {v \in (-MaxOperand) .. MaxOperand : IsDouble(v)}

ProductInit ==
    /\ ea \in Operands
    /\ eb \in Operands
    /\ edone = FALSE
    /\ ehead = 0
    /\ etail = 0
    /\ KernelIdle
    /\ AccIdle
    /\ NestedIdle
    /\ DistIdle
    /\ CombineIdle
    /\ ProcIdle
    /\ PhaseIdle
    /\ ShapeIdle
    /\ GroupIdle
    /\ CallsIdle
    /\ WorkersIdle
    /\ SymvIdle
    /\ IndexIdle
    /\ TopologyIdle
    /\ SubAccsIdle
    /\ SizeIdle
    /\ RefineIdle

ApplyTwoProductFMA ==
    /\ ~edone
    /\ LET p == TwoProductFMA(ea, eb)
       IN  ehead' = p.head /\ etail' = p.tail
    /\ edone' = TRUE
    /\ UNCHANGED <<ea, eb>>

ProductNext ==
    ApplyTwoProductFMA
        /\ UNCHANGED <<kvars, avars, nvars, dvars, cvars, pvars, hvars, svars, gvars, uvars, wvars, mvars, ivars, tvars, zvars, bvars, rvars>>

SpecProduct == ProductInit /\ [][ProductNext]_vars

\* C16: head is the double nearest to a * b, tail is a double, and head plus
\* tail is a * b in infinite precision.
ErrorFreeProduct ==
    edone => /\ ehead = RoundNearest(ea * eb)
             /\ IsDouble(etail)
             /\ ehead + etail = ea * eb

ErrorFreeProductWitness ==
    /\ edone
    /\ ea < 0
    /\ eb > 1
    /\ etail # 0
    /\ ehead # ea * eb

\* ------------------------------------------------------------------------
\* The nested dot over operands whose numbers of components may differ
\* ------------------------------------------------------------------------
ShapeXs == {3, -1}
ShapeYs == {1, 3}

ShapeInit ==
    /\ sdebug \in BOOLEAN
    /\ \E nx \in 1 .. MaxComp, ny \in 1 .. MaxComp :
        /\ sx \in [0 .. (nx - 1) -> ShapeXs]
        /\ sy \in [0 .. (ny - 1) -> ShapeYs]
    /\ spc = "idle"
    /\ si = 0
    /\ sacc = <<>>
    /\ sreads = {}
    /\ sret = <<>>
    /\ KernelIdle
    /\ AccIdle
    /\ NestedIdle
    /\ DistIdle
    /\ CombineIdle
    /\ ProcIdle
    /\ PhaseIdle
    /\ ProductIdle
    /\ GroupIdle
    /\ CallsIdle
    /\ WorkersIdle
    /\ SymvIdle
    /\ IndexIdle
    /\ TopologyIdle
    /\ SubAccsIdle
    /\ SizeIdle
    /\ RefineIdle

Size(v) == Cardinality(DOMAIN v)

\* assert( x.size() == y.size()) of a debug build, then acc( x.size())
ShapeAssert ==
    /\ spc = "idle"
    /\ IF sdebug /\ Size(sx) # Size(sy)
       THEN spc' = "aborted" /\ UNCHANGED sacc
       ELSE spc' = "loop" /\ sacc' = [i \in DOMAIN sx |-> ZeroAcc]
    /\ UNCHANGED <<sdebug, sx, sy, si, sreads, sret>>

\* acc[i] = doDot_superacc( x[i], m, y[i]); y[i] past the end of y is
\* undefined behaviour: the process crashes or reads some double
ShapeComponent ==
    /\ spc = "loop"
    /\ si < Size(sx)
    /\ sreads' = sreads \cup {si}
    /\ \/ /\ \E yi \in (IF si < Size(sy) THEN {sy[si]} ELSE ShapeYs) :
               sacc' = [sacc EXCEPT ![si] =
                   doDot_superacc_MPI([p \in Ranks(1) |-> <<<<sx[si], 1, yi>>>>],
                                      1)[0]]
          /\ si' = si + 1
          /\ spc' = (IF si + 1 < Size(sx) THEN "loop" ELSE "merge")
       \/ /\ si >= Size(sy)
          /\ spc' = "crashed"
          /\ UNCHANGED <<sacc, si>>
    /\ UNCHANGED <<sdebug, sx, sy, sret>>

\* the merge loop, return acc[0], and Round in doDot
ShapeReturn ==
    /\ spc = "merge"
    /\ sret' = <<Round(MergeLoop(sacc, 1, Size(sx)))>>
    /\ spc' = "returned"
    /\ UNCHANGED <<sdebug, sx, sy, si, sacc, sreads>>

ShapeNext ==
    /\ \/ ShapeAssert
       \/ ShapeComponent
       \/ ShapeReturn
    /\ UNCHANGED <<kvars, avars, nvars, dvars, cvars, pvars, hvars, evars, gvars, uvars, wvars, mvars, ivars, tvars, zvars, bvars, rvars>>

SpecShape == ShapeInit /\ [][ShapeNext]_vars

\* C17: when the numbers of components of x and y differ, no component is
\* accumulated, no value is returned and no index that an operand does not
\* have is read.
ShapeMismatchRejected ==
    Size(sx) # Size(sy) =>
        /\ sreads = {}
        /\ sret = <<>>

\* ------------------------------------------------------------------------
\* The distributed dot over operands of possibly different process groups
\* ------------------------------------------------------------------------
\* a communicator, a duplicate of it, the same processes in another order,
\* and another group of processes
Comms ==
    {Comm(1, <<0, 1>>), Comm(2, <<0, 1>>), Comm(3, <<1, 0>>), Comm(4, <<0>>)}

Range(r) == {r[j] : j \in 1 .. Len(r)}

MPI_Comm_compare(c1, c2) ==
    IF c1.handle = c2.handle THEN "MPI_IDENT"
    ELSE IF c1.ranks = c2.ranks THEN "MPI_CONGRUENT"
    ELSE IF Range(c1.ranks) = Range(c2.ranks) THEN "MPI_SIMILAR"
    ELSE "MPI_UNEQUAL"

Compatible(c1, c2) ==
    MPI_Comm_compare(c1, c2) \in {"MPI_CONGRUENT", "MPI_IDENT"}

GroupInit ==
    /\ gdebug \in BOOLEAN
    /\ gx \in Comms
    /\ gy \in Comms
    /\ gP \in Comms
    /\ gpc = "idle"
    /\ KernelIdle
    /\ AccIdle
    /\ NestedIdle
    /\ DistIdle
    /\ CombineIdle
    /\ ProcIdle
    /\ PhaseIdle
    /\ ProductIdle
    /\ ShapeIdle
    /\ CallsIdle
    /\ WorkersIdle
    /\ SymvIdle
    /\ IndexIdle
    /\ TopologyIdle
    /\ SubAccsIdle
    /\ SizeIdle
    /\ RefineIdle

\* debug build: x.communicator() against y.communicator()
GroupAssertY ==
    /\ gpc = "idle"
    /\ gpc' = (IF gdebug /\ ~Compatible(gx, gy) THEN "aborted" ELSE "y_checked")
    /\ UNCHANGED <<gdebug, gx, gy, gP>>

\* the second assert looks at y once more
GroupAssertP_ComparesY ==
    /\ gpc = "y_checked"
    /\ gpc' = (IF gdebug /\ ~Compatible(gx, gy) THEN "aborted" ELSE "checked")
    /\ UNCHANGED <<gdebug, gx, gy, gP>>

\* debug build: x.communicator() against P.communicator()
GroupAssertP ==
    /\ gpc = "y_checked"
    /\ gpc' = (IF gdebug /\ ~Compatible(gx, gP) THEN "aborted" ELSE "checked")
    /\ UNCHANGED <<gdebug, gx, gy, gP>>

\* the local computation
GroupLocal ==
    /\ gpc = "checked"
    /\ gpc' = "accumulated"
    /\ UNCHANGED <<gdebug, gx, gy, gP>>

\* reduce_mpi_cpu over the communicators of x
GroupReduce ==
    /\ gpc = "accumulated"
    /\ gpc' = "in_collective"
    /\ UNCHANGED <<gdebug, gx, gy, gP>>

GroupNext ==
    /\ \/ GroupAssertY
       \/ GroupAssertP
       \/ GroupLocal
       \/ GroupReduce
    /\ UNCHANGED <<kvars, avars, nvars, dvars, cvars, pvars, hvars, evars, svars, uvars, wvars, mvars, ivars, tvars, zvars, bvars, rvars>>

SpecGroup == GroupInit /\ [][GroupNext]_vars

GroupMismatch ==
    ~Compatible(gx, gy) \/ ~Compatible(gx, gP) \/ ~Compatible(gy, gP)

\* C18: in a debug build, a dot whose operands x, y or P have process groups
\* that are neither identical nor congruent starts no local accumulation and
\* enters no collective.
GroupMismatchRejected ==
    (gdebug /\ GroupMismatch) => gpc \in {"idle", "y_checked", "aborted"}

GroupMismatchRejectedWitness ==
    /\ gdebug
    /\ gpc = "aborted"
    /\ MPI_Comm_compare(gx, gy) = "MPI_CONGRUENT"
    /\ MPI_Comm_compare(gx, gP) = "MPI_SIMILAR"

\* ------------------------------------------------------------------------
\* A sequence of calls of exdot_cpu on one buffer
\* ------------------------------------------------------------------------
MaxCalls == 3

\* what a buffer may hold before a call: zeros, an earlier sum, or whatever
\* a call with NaN or Inf left behind
Garbage ==
    {ZeroAcc, [k \in Bins |-> WORDMIN], [k \in Bins |-> WORDMAX],
     [k \in Bins |-> IF k = IMAX THEN -1 ELSE DELTASCALE - 1]}

CallInputs == UNION {[1 .. n -> TripleVals] : n \in 0 .. 2}

CallsInit ==
    /\ ubuf \in Garbage
    /\ uin = <<>>
    /\ uprev = <<>>
    /\ unan = FALSE
    /\ ures = 0
    /\ ucalls = 0
    /\ KernelIdle
    /\ AccIdle
    /\ NestedIdle
    /\ DistIdle
    /\ CombineIdle
    /\ ProcIdle
    /\ PhaseIdle
    /\ ProductIdle
    /\ ShapeIdle
    /\ GroupIdle
    /\ WorkersIdle
    /\ SymvIdle
    /\ IndexIdle
    /\ TopologyIdle
    /\ SubAccsIdle
    /\ SizeIdle
    /\ RefineIdle

\* a call with finite inputs
CallFinite ==
    /\ ucalls < MaxCalls
    /\ \E t \in CallInputs :
        /\ uin' = t
        /\ ubuf' = exdot_cpu3(Len(t), Xs(t), Ps(t), Ys(t), ubuf)
    /\ ures' = Round(ubuf')
    /\ uprev' = uin
    /\ unan' = FALSE
    /\ ucalls' = ucalls + 1

\* a call with a NaN or an Inf among its inputs: the bins end up anywhere
CallNaN ==
    /\ ucalls < MaxCalls
    /\ ubuf' \in Garbage
    /\ unan' = TRUE
    /\ uprev' = uin
    /\ ucalls' = ucalls + 1
    /\ UNCHANGED <<uin, ures>>

CallsNext ==
    /\ \/ CallFinite
       \/ CallNaN
    /\ UNCHANGED <<kvars, avars, nvars, dvars, cvars, pvars, hvars, evars, svars, gvars, wvars, mvars, ivars, tvars, zvars, bvars, rvars>>

SpecCalls == CallsInit /\ [][CallsNext]_vars

\* C19: whatever the buffer held before and whatever calls came earlier, a
\* call leaves in the buffer, and returns, what it gives on an all-zero
\* accumulator for its own inputs.
CallIndependence ==
    (ucalls > 0 /\ ~unan) =>
        /\ ubuf = ExDOTFPE_cpu3(Len(uin), Xs(uin), Ps(uin), Ys(uin), ZeroAcc)
        /\ ures = Round(ubuf)

CallIndependenceWitness ==
    /\ ucalls = MaxCalls
    /\ ~unan
    /\ Len(uin) = 2
    /\ Len(uprev) = 2
    /\ uprev # uin
    /\ ures # 0
    /\ ures # Round(ExDOTFPE_cpu3(Len(uprev), Xs(uprev), Ps(uprev), Ys(uprev),
                                  ZeroAcc))

\* ------------------------------------------------------------------------
\* Concurrent workers: private accumulators merged into a shared one
\* ------------------------------------------------------------------------
MaxWorkers == 3

\* slices of products; -1 fills every bin of a normalized accumulator
WorkerSlices == {<<3>>, <<-1>>, <<3, -1>>}

WorkerIds == 1 .. wn

WorkersInit ==
    /\ wn \in 1 .. MaxWorkers
    /\ wslice \in [1 .. wn -> WorkerSlices]
    /\ wnext = [w \in 1 .. wn |-> 1]
    /\ wpriv = [w \in 1 .. wn |-> ZeroAcc]
    /\ wmerged = {}
    /\ wshared = ZeroAcc
    /\ wret = None
    /\ KernelIdle
    /\ AccIdle
    /\ NestedIdle
    /\ DistIdle
    /\ CombineIdle
    /\ ProcIdle
    /\ PhaseIdle
    /\ ProductIdle
    /\ ShapeIdle
    /\ GroupIdle
    /\ CallsIdle
    /\ SymvIdle
    /\ IndexIdle
    /\ TopologyIdle
    /\ SubAccsIdle
    /\ SizeIdle
    /\ RefineIdle

\* a worker accumulates the next product of its slice into its accumulator
WorkerAccumulate(w) ==
    /\ wnext[w] <= Len(wslice[w])
    /\ wpriv' = [wpriv EXCEPT ![w] = Accumulate(@, wslice[w][wnext[w]])]
    /\ wnext' = [wnext EXCEPT ![w] = @ + 1]
    /\ UNCHANGED <<wn, wslice, wmerged, wshared, wret>>

\* a worker that is through its slice merges, once, into the shared one; the
\* first to arrive provides it, as acc[0] does in the merge loop
WorkerMerge(w) ==
    /\ wnext[w] > Len(wslice[w])
    /\ w \notin wmerged
    /\ wshared' = IF wmerged = {} THEN wpriv[w]
                                  ELSE MergeBins(wshared, wpriv[w])
    /\ wmerged' = wmerged \cup {w}
    /\ UNCHANGED <<wn, wslice, wnext, wpriv, wret>>

WorkersRound ==
    /\ wmerged = WorkerIds
    /\ wret = None
    /\ wret' = <<Round(wshared)>>
    /\ UNCHANGED <<wn, wslice, wnext, wpriv, wmerged, wshared>>

WorkersNext ==
    /\ \/ \E w \in WorkerIds : WorkerAccumulate(w)
       \/ \E w \in WorkerIds : WorkerMerge(w)
       \/ WorkersRound
    /\ UNCHANGED <<kvars, avars, nvars, dvars, cvars, pvars, hvars, evars, svars, gvars, uvars, mvars, ivars, tvars, zvars, bvars, rvars>>

SpecWorkers == WorkersInit /\ [][WorkersNext]_vars

RECURSIVE AccumulateSlice(_, _, _)
AccumulateSlice(acc, s, i) ==
    IF i > Len(s) THEN acc
    ELSE AccumulateSlice(Accumulate(acc, s[i]), s, i + 1)

\* all the slices accumulated by one worker into one accumulator
OneWorker == Round(AccumulateSlice(ZeroAcc, Concat(wslice, 1, wn + 1), 1))

\* C20: whatever the interleaving of the workers and the order of their
\* merges, the rounded result is the one a single worker gets for all the
\* slices: every contribution counts, once.
WorkerOrderIndependence == wret # None => wret[1] = OneWorker

\* ------------------------------------------------------------------------
\* blas2::symv and blas2::gemv with scalars: y = alpha P x + beta y
\* ------------------------------------------------------------------------
MaxScalar == 2

Scalars == 0 .. MaxScalar

\* symmetric matrices, by rows
Matrices == {<<<<1, 0>>, <<0, 2>>>>, <<<<2, 1>>, <<1, 1>>>>}

SymvXs == {<<1, 2>>, <<2, -1>>}

SymvYs == {<<1, 3>>, <<0, 0>>}

RECURSIVE RowTimes(_, _, _)
RowTimes(row, x, j) ==
    IF j > Len(x) THEN 0 ELSE row[j] * x[j] + RowTimes(row, x, j + 1)

\* blas1::scal( y, alpha): y = alpha y
scal(y, alpha) == [i \in 1 .. Len(y) |-> alpha * y[i]]

\* the dispatched product for a matrix: y = alpha P x + beta y
doSymv(alpha, P, x, beta, y) ==
    [i \in 1 .. Len(y) |-> alpha * RowTimes(P[i], x, 1) + beta * y[i]]

symv(alpha, P, x, beta, y) ==
    IF alpha = 0 THEN scal(y, alpha) ELSE doSymv(alpha, P, x, beta, y)

gemv(alpha, P, x, beta, y) ==
    IF alpha = 0 THEN scal(y, alpha) ELSE doSymv(alpha, P, x, beta, y)

SymvInit ==
    /\ malpha \in Scalars
    /\ mbeta \in Scalars
    /\ mP \in Matrices
    /\ mx \in SymvXs
    /\ my \in SymvYs
    /\ myold = my
    /\ mop = "none"
    /\ KernelIdle
    /\ AccIdle
    /\ NestedIdle
    /\ DistIdle
    /\ CombineIdle
    /\ ProcIdle
    /\ PhaseIdle
    /\ ProductIdle
    /\ ShapeIdle
    /\ GroupIdle
    /\ CallsIdle
    /\ WorkersIdle
    /\ IndexIdle
    /\ TopologyIdle
    /\ SubAccsIdle
    /\ SizeIdle
    /\ RefineIdle

CallSymv ==
    /\ mop = "none"
    /\ my' = symv(malpha, mP, mx, mbeta, my)
    /\ mop' = "symv"
    /\ UNCHANGED <<malpha, mbeta, mP, mx, myold>>

CallGemv ==
    /\ mop = "none"
    /\ my' = gemv(malpha, mP, mx, mbeta, my)
    /\ mop' = "gemv"
    /\ UNCHANGED <<malpha, mbeta, mP, mx, myold>>

SymvNext ==
    /\ \/ CallSymv
       \/ CallGemv
    /\ UNCHANGED <<kvars, avars, nvars, dvars, cvars, pvars, hvars, evars, svars, gvars, uvars, wvars, ivars, tvars, zvars, bvars, rvars>>

SpecSymv == SymvInit /\ [][SymvNext]_vars

\* C21: after symv or gemv with scalars, y is alpha P x + beta y_old for
\* every alpha and beta, alpha = 0 included.
SymvResult ==
    mop # "none" =>
        \A i \in 1 .. Len(my) :
            my[i] = malpha * RowTimes(mP[i], mx, 1) + mbeta * myold[i]

\* ------------------------------------------------------------------------
\* aMPITopology2d/3d: maps between global and (PID, local) vector indices
\* ------------------------------------------------------------------------
Grid(dim, n, l, dims, per) ==
    [dim |-> dim, n |-> n, l |-> l, dims |-> dims, per |-> per,
     N |-> [d \in 1 .. dim |-> l[d] * dims[d]]]

\* grids as the constructor leaves them: global cell numbers that the
\* process grid divides
Grids ==
    { Grid(2, 2, <<2, 1>>, <<2, 3>>, <<TRUE, FALSE>>),
      Grid(2, 1, <<3, 2>>, <<1, 2>>, <<FALSE, TRUE>>),
      Grid(3, 2, <<1, 2, 2>>, <<2, 1, 2>>, <<TRUE, FALSE, TRUE>>),
      Grid(3, 1, <<2, 3, 1>>, <<3, 2, 2>>, <<FALSE, FALSE, FALSE>>) }

\* number of points of the global and of the local grid
size(G) ==
    IF G.dim = 2 THEN G.n * G.n * G.N[1] * G.N[2]
    ELSE G.n * G.n * G.N[1] * G.N[2] * G.N[3]

local_size(G) ==
    IF G.dim = 2 THEN G.n * G.n * G.l[1] * G.l[2]
    ELSE G.n * G.n * G.l[1] * G.l[2] * G.l[3]

CommSize(G) ==
    IF G.dim = 2 THEN G.dims[1] * G.dims[2]
    ELSE G.dims[1] * G.dims[2] * G.dims[3]

\* ranks of a cartesian communicator are row-major in the coordinates
MPI_Cart_coords(G, PID) ==
    IF G.dim = 2 THEN <<PID \div G.dims[2], PID % G.dims[2]>>
    ELSE <<PID \div (G.dims[2] * G.dims[3]), (PID \div G.dims[3]) % G.dims[2],
           PID % G.dims[3]>>

InComm(G, PID) == PID >= 0 /\ PID < CommSize(G)

\* out-of-range coordinates are shifted back in periodic dimensions and
\* erroneous in the others
CartRankOk(G, coords) ==
    \A d \in 1 .. G.dim : G.per[d] \/ (coords[d] >= 0 /\ coords[d] < G.dims[d])

MPI_Cart_rank(G, coords) ==
    IF G.dim = 2
    THEN (coords[1] % G.dims[1]) * G.dims[2] + (coords[2] % G.dims[2])
    ELSE ((coords[1] % G.dims[1]) * G.dims[2] + (coords[2] % G.dims[2]))
             * G.dims[3] + (coords[3] % G.dims[3])

\* result of a call: what it returned and the output arguments it wrote
Returned(ret, out) == [ret |-> ret, out |-> out]

\* an MPI call that fails returns an error code or ends the program
MPIError(fatal) == Returned(IF fatal THEN "abort" ELSE "false", <<>>)

local2globalIdx2d(G, fatal, localIdx, PID) ==
    IF localIdx < 0 \/ localIdx >= size(G) THEN Returned("true", <<>>)
    ELSE IF ~InComm(G, PID) THEN MPIError(fatal)
    ELSE LET coords == MPI_Cart_coords(G, PID)
             lIdx0 == localIdx % (G.n * G.l[1])
             lIdx1 == localIdx \div (G.n * G.l[1])
             gIdx0 == coords[1] * G.n * G.l[1] + lIdx0
             gIdx1 == coords[2] * G.n * G.l[2] + lIdx1
         IN  Returned("true", <<gIdx1 * G.n * G.N[1] + gIdx0>>)

global2localIdx2d(G, fatal, globalIdx) ==
    IF globalIdx < 0 \/ globalIdx >= size(G) THEN Returned("true", <<>>)
    ELSE LET gIdx0 == globalIdx % (G.n * G.N[1])
             gIdx1 == globalIdx \div (G.n * G.N[1])
             coords == <<gIdx0 \div (G.n * G.l[1]), gIdx1 \div (G.n * G.l[2])>>
             lIdx0 == gIdx0 % (G.n * G.l[1])
             lIdx1 == gIdx1 % (G.n * G.l[2])
             localIdx == lIdx1 * G.n * G.l[1] + lIdx0
         IN  IF CartRankOk(G, coords)
             THEN Returned("true", <<localIdx, MPI_Cart_rank(G, coords)>>)
             ELSE [MPIError(fatal) EXCEPT !.out = <<localIdx>>]

local2globalIdx3d(G, fatal, localIdx, PID) ==
    IF localIdx < 0 \/ localIdx >= size(G) THEN Returned("false", <<>>)
    ELSE IF ~InComm(G, PID) THEN MPIError(fatal)
    ELSE LET coords == MPI_Cart_coords(G, PID)
             lIdx0 == localIdx % (G.n * G.l[1])
             lIdx1 == (localIdx \div (G.n * G.l[1])) % (G.n * G.l[2])
             lIdx2 == localIdx \div (G.n * G.n * G.l[1] * G.l[2])
             gIdx0 == coords[1] * G.n * G.l[1] + lIdx0
             gIdx1 == coords[2] * G.n * G.l[2] + lIdx1
             gIdx2 == coords[3] * G.l[3] + lIdx2
         IN  Returned("true",
                 <<(gIdx2 * G.n * G.N[2] + gIdx1) * G.n * G.N[1] + gIdx0>>)

global2localIdx3d_SwappedStride(G, fatal, globalIdx) ==
    IF globalIdx < 0 \/ globalIdx >= size(G) THEN Returned("false", <<>>)
    ELSE LET gIdx0 == globalIdx % (G.n * G.N[1])
             gIdx1 == (globalIdx \div (G.n * G.N[1])) % (G.n * G.N[2])
             gIdx2 == globalIdx \div (G.n * G.n * G.N[1] * G.N[2])
             coords == <<gIdx0 \div (G.n * G.l[1]), gIdx1 \div (G.n * G.l[2]),
                         gIdx2 \div G.l[3]>>
             lIdx0 == gIdx0 % (G.n * G.l[1])
             lIdx1 == gIdx1 % (G.n * G.l[2])
             lIdx2 == gIdx2 % G.l[3]
             localIdx == (lIdx2 * G.n * G.l[1] + lIdx1) * G.n * G.l[2] + lIdx0
         IN  IF CartRankOk(G, coords)
             THEN Returned("true", <<localIdx, MPI_Cart_rank(G, coords)>>)
             ELSE [MPIError(fatal) EXCEPT !.out = <<localIdx>>]

global2localIdx3d(G, fatal, globalIdx) ==
    IF globalIdx < 0 \/ globalIdx >= size(G) THEN Returned("false", <<>>)
    ELSE LET gIdx0 == globalIdx % (G.n * G.N[1])
             gIdx1 == (globalIdx \div (G.n * G.N[1])) % (G.n * G.N[2])
             gIdx2 == globalIdx \div (G.n * G.n * G.N[1] * G.N[2])
             coords == <<gIdx0 \div (G.n * G.l[1]), gIdx1 \div (G.n * G.l[2]),
                         gIdx2 \div G.l[3]>>
             lIdx0 == gIdx0 % (G.n * G.l[1])
             lIdx1 == gIdx1 % (G.n * G.l[2])
             lIdx2 == gIdx2 % G.l[3]
             localIdx == (lIdx2 * G.n * G.l[2] + lIdx1) * G.n * G.l[1] + lIdx0
         IN  IF CartRankOk(G, coords)
             THEN Returned("true", <<localIdx, MPI_Cart_rank(G, coords)>>)
             ELSE [MPIError(fatal) EXCEPT !.out = <<localIdx>>]

local2globalIdx(G, fatal, localIdx, PID) ==
    IF G.dim = 2 THEN local2globalIdx2d(G, fatal, localIdx, PID)
    ELSE local2globalIdx3d(G, fatal, localIdx, PID)

global2localIdx(G, fatal, globalIdx) ==
    IF G.dim = 2 THEN global2localIdx2d(G, fatal, globalIdx)
    ELSE global2localIdx3d(G, fatal, globalIdx)

IndexInit ==
    /\ igrid \in Grids
    /\ ifatal \in BOOLEAN
    /\ iop = "none"
    /\ iin = <<>>
    /\ iret = "none"
    /\ iout = <<>>
    /\ iback = <<>>
    /\ KernelIdle
    /\ AccIdle
    /\ NestedIdle
    /\ DistIdle
    /\ CombineIdle
    /\ ProcIdle
    /\ PhaseIdle
    /\ ProductIdle
    /\ ShapeIdle
    /\ GroupIdle
    /\ CallsIdle
    /\ WorkersIdle
    /\ SymvIdle
    /\ TopologyIdle
    /\ SubAccsIdle
    /\ SizeIdle
    /\ RefineIdle

\* arguments from one below to one above the valid ranges
LocalArgs == -1 .. size(igrid)

PIDArgs == -1 .. CommSize(igrid)

GlobalArgs == -1 .. size(igrid)

CallLocal2Global ==
    /\ iop = "none"
    /\ \E localIdx \in LocalArgs, PID \in PIDArgs :
        LET r == local2globalIdx(igrid, ifatal, localIdx, PID)
        IN  /\ iin' = <<localIdx, PID>>
            /\ iret' = r.ret
            /\ iout' = r.out
    /\ iop' = "l2g"
    /\ UNCHANGED <<igrid, ifatal, iback>>

CallGlobal2Local ==
    /\ iop = "none"
    /\ \E globalIdx \in GlobalArgs :
        LET r == global2localIdx(igrid, ifatal, globalIdx)
        IN  /\ iin' = <<globalIdx>>
            /\ iret' = r.ret
            /\ iout' = r.out
    /\ iop' = "g2l"
    /\ UNCHANGED <<igrid, ifatal, iback>>

\* the caller feeds the outputs of a successful call to the other map
BackGlobal2Local ==
    /\ iop = "l2g"
    /\ iret = "true"
    /\ Len(iout) = 1
    /\ LET r == global2localIdx(igrid, ifatal, iout[1])
       IN  /\ iret' = r.ret
           /\ iback' = r.out
    /\ iop' = "l2g,g2l"
    /\ UNCHANGED <<igrid, ifatal, iin, iout>>

BackLocal2Global ==
    /\ iop = "g2l"
    /\ iret = "true"
    /\ Len(iout) = 2
    /\ LET r == local2globalIdx(igrid, ifatal, iout[1], iout[2])
       IN  /\ iret' = r.ret
           /\ iback' = r.out
    /\ iop' = "g2l,l2g"
    /\ UNCHANGED <<igrid, ifatal, iin, iout>>

IndexNext ==
    /\ \/ CallLocal2Global
       \/ CallGlobal2Local
       \/ BackGlobal2Local
       \/ BackLocal2Global
    /\ UNCHANGED <<kvars, avars, nvars, dvars, cvars, pvars, hvars, evars, svars, gvars, uvars, wvars, mvars, tvars, zvars, bvars, rvars>>

SpecIndex == IndexInit /\ [][IndexNext]_vars

ValidLocal(localIdx, PID) ==
    /\ localIdx >= 0
    /\ localIdx < local_size(igrid)
    /\ InComm(igrid, PID)

ValidGlobal(globalIdx) == globalIdx >= 0 /\ globalIdx < size(igrid)

\* C22: local2globalIdx returns false when localIdx is negative or not below
\* local_size() or PID is not in the communicator, and returns true, with
\* globalIdx set, only when both are part of the grid.
Local2GlobalRejects ==
    iop = "l2g" =>
        /\ ~ValidLocal(iin[1], iin[2]) => iret = "false"
        /\ iret = "true" => ValidLocal(iin[1], iin[2]) /\ Len(iout) = 1

\* C23: global2localIdx returns false when globalIdx is negative or not
\* below the global size, and returns true only for a globalIdx of the grid,
\* with localIdx below local_size() and PID a rank of the communicator.
Global2LocalRejects ==
    iop = "g2l" =>
        /\ ~ValidGlobal(iin[1]) => iret = "false"
        /\ iret = "true" =>
            /\ ValidGlobal(iin[1])
            /\ Len(iout) = 2
            /\ ValidLocal(iout[1], iout[2])

MaxCells == 4

Cells == 1 .. MaxCells

\* process grids of two processes
ProcessGrids == {<<2, 1>>, <<1, 2>>, <<1, 2, 1>>, <<1, 1, 2>>}

Polynomials == {1, 2}

\* factors fx, fy of multiplyCellNumbers, as <<numerator, denominator>>
Factors == {<<1, 2>>, <<3, 2>>, <<2, 1>>}

CellNumbers(dims) == [1 .. Len(dims) -> Cells]

\* floor( f*N + 0.5) in two dimensions and round( f*N) in three
Scaled(f, N) == (2 * f[1] * N + f[2]) \div (2 * f[2])

\* the asserts of check_division hold
Divides(dims, N) == \A d \in 1 .. Len(dims) : N[d] % dims[d] = 0

\* check_division returns: it ends the program on rank 0 of a build with
\* asserts when the division or the boundary conditions do not fit
check_division(N) == tndebug \/ trank # 0 \/ (Divides(tdims, N) /\ tbc)

update_local(N) == [d \in 1 .. Len(tdims) |-> N[d] \div tdims[d]]

TopologyInit ==
    /\ tndebug \in BOOLEAN
    /\ trank \in {0, 1}
    /\ tdims \in ProcessGrids
    /\ tbc \in BOOLEAN
    /\ tn = 0
    /\ tN = <<>>
    /\ tl = <<>>
    /\ tpc = "new"
    /\ KernelIdle
    /\ AccIdle
    /\ NestedIdle
    /\ DistIdle
    /\ CombineIdle
    /\ ProcIdle
    /\ PhaseIdle
    /\ ProductIdle
    /\ ShapeIdle
    /\ GroupIdle
    /\ CallsIdle
    /\ WorkersIdle
    /\ SymvIdle
    /\ IndexIdle
    /\ SubAccsIdle
    /\ SizeIdle
    /\ RefineIdle

\* the constructor: g and l are set, then update_local, then check_division
Construct(n, N) ==
    /\ tpc = "new"
    /\ tn' = n
    /\ tN' = N
    /\ tl' = update_local(N)
    /\ tpc' = IF check_division(N) THEN "alive" ELSE "aborted"
    /\ UNCHANGED <<tndebug, trank, tdims, tbc>>

set(new_n, new_N) ==
    /\ tpc = "alive"
    /\ IF ~check_division(new_N)
       THEN /\ tpc' = "aborted"
            /\ UNCHANGED <<tn, tN, tl>>
       ELSE IF new_n = tn /\ new_N = tN
       THEN UNCHANGED <<tn, tN, tl, tpc>>
       ELSE /\ tn' = new_n
            /\ tN' = new_N
            /\ tl' = update_local(new_N)
            /\ UNCHANGED tpc
    /\ UNCHANGED <<tndebug, trank, tdims, tbc>>

multiplyCellNumbers(fx, fy) ==
    /\ tpc = "alive"
    /\ Scaled(fx, tN[1]) \in Cells
    /\ Scaled(fy, tN[2]) \in Cells
    /\ set(tn, [tN EXCEPT ![1] = Scaled(fx, tN[1]), ![2] = Scaled(fy, tN[2])])

TopologyNext ==
    /\ \/ \E n \in Polynomials, N \in CellNumbers(tdims) : Construct(n, N)
       \/ \E n \in Polynomials, N \in CellNumbers(tdims) : set(n, N)
       \/ \E fx \in Factors, fy \in Factors : multiplyCellNumbers(fx, fy)
    /\ UNCHANGED <<kvars, avars, nvars, dvars, cvars, pvars, hvars, evars, svars, gvars, uvars, wvars, mvars, ivars, zvars, bvars, rvars>>

SpecTopology == TopologyInit /\ [][TopologyNext]_vars

\* C24: after construction and after any calls of set and
\* multiplyCellNumbers the local cell numbers times the process numbers are
\* the global cell numbers in every direction.
GridDivision ==
    tpc = "alive" => \A d \in 1 .. Len(tdims) : tl[d] * tdims[d] = tN[d]

\* sub-accumulator of component i as the nested dot gets it back
SubAcc(i) ==
    reduce_mpi_cpu([p \in Ranks(1) |-> doDot_superacc_dense(hx[i])],
                   [p \in Ranks(1) |-> ZeroAcc], 1)[0]

\* sum over the components i .. hsize-1 of bin k of the normalized
\* sub-accumulators
RECURSIVE BinSum(_, _)
BinSum(k, i) ==
    IF i >= hsize THEN 0
    ELSE Normalize(SubAcc(i), IMIN, IMAX)[k] + BinSum(k, i + 1)

\* C25: the accumulator the nested dot returns is, in every bin from IMIN
\* through IMAX, the sum of that bin of the normalized sub-accumulators of
\* all the components.
NestedMergeComplete ==
    (hnested /\ hpc = "round") => \A k \in Bins : hacc[0][k] = BinSum(k, 0)

\* positions of a phase among those the call has entered
Entered(phase) == {k \in 1 .. Len(hphases) : hphases[k] = phase}

\* C26: a call over nested operands accumulates all its components before
\* it enters the distributed combine, and enters the combine once, however
\* many components there are.
CombineOncePerCall ==
    /\ Cardinality(Entered("Combining")) <= 1
    /\ \A c \in Entered("Combining"), a \in Entered("Accumulating") : a < c

\* ------------------------------------------------------------------------
\* Nested dot: the vector acc of sub-accumulators and its indices
\* ------------------------------------------------------------------------
SubArrays ==
    {<<>>, <<<<3, 1, 1>>>>, <<<<-1, 1, 1>>>>, <<<<3, 1, 1>>, <<-1, 1, 1>>>>}

SubAccsInit ==
    /\ \E n \in 0 .. MaxComp : zx \in [0 .. (n - 1) -> SubArrays]
    /\ zacc = <<>>
    /\ zpc = "idle"
    /\ zi = 0
    /\ zidx = {}
    /\ zret = <<>>
    /\ KernelIdle
    /\ AccIdle
    /\ NestedIdle
    /\ DistIdle
    /\ CombineIdle
    /\ ProcIdle
    /\ PhaseIdle
    /\ ProductIdle
    /\ ShapeIdle
    /\ GroupIdle
    /\ CallsIdle
    /\ WorkersIdle
    /\ SymvIdle
    /\ IndexIdle
    /\ TopologyIdle
    /\ SizeIdle
    /\ RefineIdle

\* std::vector<std::vector<int64_t>> acc( x.size())
SubAccsAllocate ==
    /\ zpc = "idle"
    /\ zacc' = [i \in DOMAIN zx |-> ZeroAcc]
    /\ zi' = 0
    /\ zpc' = "components"
    /\ UNCHANGED <<zx, zidx, zret>>

\* first loop: acc[i] = doDot_superacc( x[i], m, y[i], ...)
SubAccsComponent ==
    /\ zpc = "components"
    /\ IF zi < Size(zx)
       THEN /\ zacc' = [zacc EXCEPT ![zi] =
                    doDot_superacc_MPI([p \in Ranks(1) |-> zx[zi]], 1)[0]]
            /\ zidx' = zidx \cup {zi}
            /\ zi' = zi + 1
            /\ UNCHANGED zpc
       ELSE /\ zi' = 1
            /\ zpc' = "merge"
            /\ UNCHANGED <<zacc, zidx>>
    /\ UNCHANGED <<zx, zret>>

\* second loop: acc[i] is merged into acc[0]
SubAccsMerge ==
    /\ zpc = "merge"
    /\ IF zi < Size(zx)
       THEN /\ zacc' = [zacc EXCEPT ![0] = MergeBins(zacc[0], zacc[zi]),
                                    ![zi] = Normalize(zacc[zi], IMIN, IMAX)]
            /\ zidx' = zidx \cup {0, zi}
            /\ zi' = zi + 1
            /\ UNCHANGED zpc
       ELSE /\ zpc' = "return"
            /\ UNCHANGED <<zacc, zidx, zi>>
    /\ UNCHANGED <<zx, zret>>

\* return acc[0]; with no component acc is empty and acc[0] is undefined
\* behaviour: the process crashes or some memory comes back
SubAccsReturn ==
    /\ zpc = "return"
    /\ zidx' = zidx \cup {0}
    /\ IF 0 \in DOMAIN zacc
       THEN zret' = <<zacc[0]>> /\ zpc' = "returned"
       ELSE \/ zret' \in {<<g>> : g \in Garbage} /\ zpc' = "returned"
            \/ zpc' = "crashed" /\ UNCHANGED zret
    /\ UNCHANGED <<zx, zacc, zi>>

SubAccsNext ==
    /\ \/ SubAccsAllocate
       \/ SubAccsComponent
       \/ SubAccsMerge
       \/ SubAccsReturn
    /\ UNCHANGED <<kvars, avars, nvars, dvars, cvars, pvars, hvars, evars, svars, gvars, uvars, wvars, mvars, ivars, tvars, bvars, rvars>>

SpecSubAccs == SubAccsInit /\ [][SubAccsNext]_vars

\* sum of the values of the sub-accumulators of the components i .. n-1
RECURSIVE SubValues(_)
SubValues(i) ==
    IF i >= Size(zx) THEN 0
    ELSE Value(doDot_superacc_MPI([p \in Ranks(1) |-> zx[i]], 1)[0])
             + SubValues(i + 1)

\* C28: for any number n >= 0 of components the nested dot accesses acc at
\* indices below n only and returns the sum of the n sub-accumulators, the
\* all-zero accumulator when n = 0.
SubAccsInBounds ==
    /\ \A i \in zidx : i < Size(zx)
    /\ zpc # "crashed"
    /\ zpc = "returned" =>
        /\ Value(zret[1]) = SubValues(0)
        /\ Size(zx) = 0 => zret[1] = ZeroAcc

\* ------------------------------------------------------------------------
\* exdot_cpu: the unsigned size, its conversion to int and the indices read
\* ------------------------------------------------------------------------
\* bits of unsigned and of int (scaled, the program has 32)
SIZEBITS == 6

Sizes == 0 .. (Pow2(SIZEBITS) - 1)

\* (int)size: the value modulo 2^SIZEBITS that an int holds
ToInt(u) ==
    IF u >= Pow2(SIZEBITS - 1) THEN u - Pow2(SIZEBITS) ELSE u

\* int r = (( int64_t(N) ) & ~7ul): the low bits of the two's complement
\* of N are cleared
MaskLow(N) == N - (N % VLEN)

SizeInit ==
    /\ bsize \in Sizes
    /\ bN = 0
    /\ br = 0
    /\ bi = 0
    /\ bpc = "idle"
    /\ bdone = {}
    /\ breads = {}
    /\ KernelIdle
    /\ AccIdle
    /\ NestedIdle
    /\ DistIdle
    /\ CombineIdle
    /\ ProcIdle
    /\ PhaseIdle
    /\ ProductIdle
    /\ ShapeIdle
    /\ GroupIdle
    /\ CallsIdle
    /\ WorkersIdle
    /\ SymvIdle
    /\ IndexIdle
    /\ TopologyIdle
    /\ SubAccsIdle
    /\ RefineIdle

\* exdot_cpu calls ExDOTFPE_cpu( (int)size, ...), which computes r
SizeConvert ==
    /\ bpc = "idle"
    /\ bN' = ToInt(bsize)
    /\ br' = MaskLow(ToInt(bsize))
    /\ bi' = 0
    /\ bpc' = "loop"
    /\ UNCHANGED <<bsize, bdone, breads>>

\* one turn of for(int i = 0; i < r; i+=8): a full vector is loaded
SizeLoop ==
    /\ bpc = "loop"
    /\ IF bi < br
       THEN /\ breads' = breads \cup (bi .. (bi + VLEN - 1))
            /\ bdone' = bdone \cup (bi .. (bi + VLEN - 1))
            /\ bi' = bi + VLEN
            /\ UNCHANGED bpc
       ELSE /\ bpc' = "remainder"
            /\ UNCHANGED <<bi, bdone, breads>>
    /\ UNCHANGED <<bsize, bN, br>>

\* if( r != N): load_partial( N-r, a+r) reads the N-r elements from a[r] on
SizeRemainder ==
    /\ bpc = "remainder"
    /\ IF br # bN
       THEN /\ breads' = breads \cup (br .. (bN - 1))
            /\ bdone' = bdone \cup (br .. (bN - 1))
       ELSE UNCHANGED <<bdone, breads>>
    /\ bpc' = "flushed"
    /\ UNCHANGED <<bsize, bN, br, bi>>

SizeNext ==
    /\ \/ SizeConvert
       \/ SizeLoop
       \/ SizeRemainder
    /\ UNCHANGED <<kvars, avars, nvars, dvars, cvars, pvars, hvars, evars, svars, gvars, uvars, wvars, mvars, ivars, tvars, zvars, rvars>>

SpecSize == SizeInit /\ [][SizeNext]_vars

\* C29: for every value of the unsigned size, exdot_cpu accumulates exactly
\* the indices 0 .. size-1 and reads no element outside them.
SizeExact ==
    /\ breads \subseteq 0 .. (bsize - 1)
    /\ bpc = "flushed" => bdone = 0 .. (bsize - 1)

\* ------------------------------------------------------------------------
\* aRefinedGrid2d/3d: corner refinement and the product-space loop
\* ------------------------------------------------------------------------
MaxRefined == 2

Adds == {0, 1}

\* what the asserts of equidist_ref admit
Admissible(N, node, howmany) ==
    /\ howmany <= N
    /\ node <= N
    /\ (node # 0 /\ node # N) => (howmany <= node /\ howmany <= N - node)

\* refinements of one direction
Refinements ==
    {d \in [N : 1 .. MaxRefined, node : 0 .. MaxRefined, add : Adds,
            howmany : 0 .. MaxRefined, per : BOOLEAN] :
        Admissible(d.N, d.node, d.howmany)}

n_new(N, factor, per) == IF per THEN N + 2 * factor ELSE N + factor

\* the weights equidist_ref returns, element i of a vector being w[i + 1]
equidist_ref(add_x, node, n, N, per, howmany) ==
    IF add_x = 0 \/ howmany = 0 THEN [i \in 1 .. (n * N) |-> 1]
    ELSE LET left == [i \in 1 .. (n * N + n * add_x * howmany) |->
                         IF i - 1 < (add_x + 1) * howmany * n THEN add_x + 1
                                                              ELSE 1]
             right == [i \in 1 .. Len(left) |-> left[Len(left) - (i - 1)]]
             both == [i \in 1 .. (n * N + 2 * n * add_x * howmany) |->
                         (IF i <= Len(left) THEN left[i] ELSE 1)
                         * (IF i > n * add_x * howmany
                            THEN right[i - n * add_x * howmany] ELSE 1)]
         IN  IF node = 0 /\ ~per THEN left
             ELSE IF node = N /\ ~per THEN right
             ELSE IF (node = N \/ node = 0) /\ per THEN both
             ELSE [k \in 1 .. Len(both) |->
                      both[((k - 1 - (howmany * add_x + node) * n)
                               % Len(both)) + 1]]

RefineInit ==
    /\ rdim \in {2, 3}
    /\ rn \in Polynomials
    /\ rNz = (IF rdim = 2 THEN 1 ELSE 2)
    /\ rx \in Refinements
    /\ ry \in Refinements
    /\ rpc = "base"
    /\ rsize = 0
    /\ rwx = <<>>
    /\ rwy = <<>>
    /\ rwrites = {}
    /\ KernelIdle
    /\ AccIdle
    /\ NestedIdle
    /\ DistIdle
    /\ CombineIdle
    /\ ProcIdle
    /\ PhaseIdle
    /\ ProductIdle
    /\ ShapeIdle
    /\ GroupIdle
    /\ CallsIdle
    /\ WorkersIdle
    /\ SymvIdle
    /\ IndexIdle
    /\ TopologyIdle
    /\ SubAccsIdle
    /\ SizeIdle

\* the base grid gets n_new cells per direction; wx_, wy_, absX_ and absY_
\* are given size() elements
RefineBase ==
    /\ rpc = "base"
    /\ rsize' = rn * rn * n_new(rx.N, rx.add * rx.howmany, rx.per)
                        * n_new(ry.N, ry.add * ry.howmany, ry.per) * rNz
    /\ rpc' = "x"
    /\ UNCHANGED <<rdim, rn, rNz, rx, ry, rwx, rwy, rwrites>>

\* detail::equidist_ref( add_x, node_x, gx, wx, ax, howmanyX)
RefineX ==
    /\ rpc = "x"
    /\ rwx' = equidist_ref(rx.add, rx.node, rn, rx.N, rx.per, rx.howmany)
    /\ rpc' = "y"
    /\ UNCHANGED <<rdim, rn, rNz, rx, ry, rsize, rwy, rwrites>>

\* detail::equidist_ref( add_y, node_y, gy, wy, ay, howmanyY)
RefineY ==
    /\ rpc = "y"
    /\ rwy' = equidist_ref(ry.add, ry.node, rn, ry.N, ry.per, ry.howmany)
    /\ rpc' = "product"
    /\ UNCHANGED <<rdim, rn, rNz, rx, ry, rsize, rwx, rwrites>>

\* the product-space loop over s, i and j
RefineProduct ==
    /\ rpc = "product"
    /\ rwrites' = {(s * Len(rwy) + i) * Len(rwx) + j :
                       s \in 0 .. (rNz - 1), i \in 0 .. (Len(rwy) - 1),
                       j \in 0 .. (Len(rwx) - 1)}
    /\ rpc' = "constructed"
    /\ UNCHANGED <<rdim, rn, rNz, rx, ry, rsize, rwx, rwy>>

RefineNext ==
    /\ \/ RefineBase
       \/ RefineX
       \/ RefineY
       \/ RefineProduct
    /\ UNCHANGED <<kvars, avars, nvars, dvars, cvars, pvars, hvars, evars, svars, gvars, uvars, wvars, mvars, ivars, tvars, zvars, bvars>>

SpecRefine == RefineInit /\ [][RefineNext]_vars

\* C30: for every admissible node, add, howmany and boundary condition the
\* vectors of equidist_ref have the lengths n*Nx_new and n*Ny_new of the
\* base grid, and every index written in the product-space loop is below
\* size().
RefinedInBounds ==
    /\ rwx # <<>> =>
           Len(rwx) = rn * n_new(rx.N, rx.add * rx.howmany, rx.per)
    /\ rwy # <<>> =>
           Len(rwy) = rn * n_new(ry.N, ry.add * ry.howmany, ry.per)
    /\ \A k \in rwrites : k < rsize

====
